---- MODULE Spec2Model ----
(***************************************************************************)
(* Model of the hook subsystem of goliatone/go-template:                   *)
(*   - HookManager  (hooks.go): priority buckets guarded by a RWMutex      *)
(*   - HookChain    (hooks.go): ordered bundle of hooks, fail-fast         *)
(*   - Engine       (engine.go): render of a template around the hooks     *)
(***************************************************************************)
EXTENDS Integers, Sequences, FiniteSets, TLC

(***************************************************************************)
(* Bounds                                                                  *)
(***************************************************************************)
NumThreads == 2     \* threads that use one HookManager concurrently
MaxRegs == 3        \* registrations made by a single thread
MaxConcRegs == 2    \* registrations made by concurrent threads
PrioBound == 1      \* priorities range over -PrioBound..PrioBound
MaxChain == 3       \* hooks in each list of a HookChain
MaxHooks == 3       \* hooks registered on one renderer
MaxLiveHooks == 2   \* hooks registered while renders are in progress
MaxSharedHooks == 2 \* hooks on a renderer two goroutines render with
MaxUnits == 2       \* hooks registered in a manager next to a chain
MaxOptionHooks == 2 \* hooks given to one option of NewHookChain
MaxEngineCalls == 2 \* calls goroutines make concurrently on one Engine
MaxSeqCalls == 5    \* calls one goroutine makes on one Engine
MaxNameLen == 2     \* pieces in the name given to Render
MaxFluentChains == 2 \* HookChains made by NewHookChain
MaxFluentHooks == 4 \* hook values given to the HookChains
MaxOptions == 2     \* options given to one NewHookChain
MaxBoundHooks == 4  \* hooks and closures made next to one live chain
MaxNestChains == 2  \* HookChains that hold closures of one another
MaxNestHooks == 3   \* hooks and closures appended to those chains

Threads == 1..NumThreads
Prios == (0 - PrioBound)..PrioBound
NoThread == 0
MainThread == 1

VARIABLES
  preHooks,    \* HookManager.preHooks  : map[int][]PreHook
  postHooks,   \* HookManager.postHooks : map[int][]PostHook
  mu,          \* HookManager.mu        : sync.RWMutex
  pc,          \* position of each thread inside the method it runs
  args,        \* arguments of the call each thread runs
  hooksLocal,  \* the local variable `hooks` of AddPreHook / AddPostHook
  ret,         \* value returned by the last PreHooks() / PostHooks() call
  nextId,      \* identity of the next hook value to be registered
  regLog,      \* history: registrations in the order their calls returned
  regThreads,  \* history: threads whose registration calls have returned
  chainPre,    \* HookChain.preHooks  : []PreHook
  chainPost,   \* HookChain.postHooks : []PostHook
  last,        \* the last ExecutePreHooks / ExecutePostHooks call and its outcome
  chains,      \* the HookChains made by NewHookChain, by address
  templates,   \* Engine.templates : map[string]*pongo2.Template
  render,      \* the render call in progress, or the last one and its outcome
  other,       \* the same for the render calls of a second goroutine
  templateSet, \* Engine.templateSet : *pongo2.TemplateSet (an address in sets)
  sets,        \* the pongo2.TemplateSets made so far, each with its Globals
  globalData,  \* Engine.globalData : map[string]any, given by its keys
  filters,     \* the filters registered with pongo2, by name
  engineMu,    \* Engine.mu : sync.RWMutex
  goroutines,  \* the Engine method each goroutine runs and its position in it
  hist,        \* history: calls made, files compiled, global data accepted
  disk         \* the template files under the base directory of the loader

chainVars == <<chainPre, chainPost, last, chains>>

engineShared == <<templateSet, sets, globalData, filters, engineMu, goroutines, hist, disk>>

engineVars == <<templates, render, other, engineShared>>

registryVars == <<mu, pc, args, hooksLocal, ret, regLog, regThreads>>

vars == <<preHooks, postHooks, mu, pc, args, hooksLocal, ret, nextId, regLog,
          regThreads, chainVars, engineVars>>

EmptyMap == [k \in {} |-> <<>>]
NoArgs == [hook |-> 0, priority |-> <<>>]
NoRet == [kind |-> "none", out |-> <<>>]

(***************************************************************************)
(* sync.RWMutex                                                            *)
(***************************************************************************)
\* a Lock() that excludes nobody
CanLockUnguarded(m) == TRUE

\* e.mu.Lock() proceeds when no writer and no reader holds the mutex
CanLock(m) == m.writer = NoThread /\ m.readers = {}

\* an RLock() that does not wait for the writer
CanRLockUnguarded(m) == TRUE

\* e.mu.RLock() proceeds when no writer holds the mutex
CanRLock(m) == m.writer = NoThread

(***************************************************************************)
(* Pure helpers of HookManager                                             *)
(***************************************************************************)
\* a registration whose priority starts at 1
PriorityOfDefaultOne(priority) == IF Len(priority) > 0 THEN priority[1] ELSE 1

\* p := 0; if len(priority) > 0 { p = priority[0] }
PriorityOf(priority) == IF Len(priority) > 0 THEN priority[1] ELSE 0

\* hooks, ok := buckets[p]; if !ok { hooks = make([]Hook, 0) }
LookupBucket(buckets, p) == IF p \in DOMAIN buckets THEN buckets[p] ELSE <<>>

\* a registration that puts the new hook in front of its bucket
StoreBucketPrepend(buckets, p, hooks, hook) ==
  [k \in (DOMAIN buckets) \cup {p} |-> IF k = p THEN <<hook>> \o hooks ELSE buckets[k]]

\* a registration that makes the new hook the only one of its bucket
StoreBucketReplace(buckets, p, hooks, hook) ==
  [k \in (DOMAIN buckets) \cup {p} |-> IF k = p THEN <<hook>> ELSE buckets[k]]

\* a registration that stores a new map holding the bucket of p only
StoreBucketAlone(buckets, p, hooks, hook) == [k \in {p} |-> Append(hooks, hook)]

\* buckets[p] = append(hooks, hook)
StoreBucket(buckets, p, hooks, hook) ==
  [k \in (DOMAIN buckets) \cup {p} |-> IF k = p THEN Append(hooks, hook) ELSE buckets[k]]

\* the values a slice holds
Range(seq) == {seq[i] : i \in 1..Len(seq)}

\* for k := range buckets: Go visits the keys of a map in an unspecified order
KeyOrders(buckets) ==
  LET n == Cardinality(DOMAIN buckets)
  IN {s \in [1..n -> DOMAIN buckets] : \A i, j \in 1..n : s[i] = s[j] => i = j}

RECURSIVE InsertKey(_, _)
InsertKey(k, sorted) ==
  IF sorted = <<>> THEN <<k>>
  ELSE IF k <= Head(sorted) THEN <<k>> \o sorted
  ELSE <<Head(sorted)>> \o InsertKey(k, Tail(sorted))

\* a PreHooks() that visits the buckets in map iteration order
SortIntsSkipped(keys) == keys

\* a PreHooks() that visits the buckets from the highest key to the lowest
SortIntsDescending(keys) ==
  [i \in 1..Len(keys) |->
     CHOOSE k \in Range(keys) : Cardinality({x \in Range(keys) : x > k}) = i - 1]

\* sort.Ints(keys)
RECURSIVE SortInts(_)
SortInts(keys) ==
  IF keys = <<>> THEN <<>> ELSE InsertKey(Head(keys), SortInts(Tail(keys)))

\* a PreHooks() that takes the first hook of every bucket only
RECURSIVE AppendBucketsHeads(_, _)
AppendBucketsHeads(buckets, keys) ==
  IF keys = <<>> THEN <<>>
  ELSE <<Head(buckets[Head(keys)])>> \o AppendBucketsHeads(buckets, Tail(keys))

\* for _, priority := range keys { out = append(out, buckets[priority]...) }
RECURSIVE AppendBuckets(_, _)
AppendBuckets(buckets, keys) ==
  IF keys = <<>> THEN <<>>
  ELSE buckets[Head(keys)] \o AppendBuckets(buckets, Tail(keys))

\* body of PreHooks() / PostHooks() for one iteration order of the map
CollectHooks(buckets, keys) == AppendBuckets(buckets, SortInts(keys))

(***************************************************************************)
(* HookContext and hook values.  A string is a sequence of markers; a hook  *)
(* is a closure, given by an identity and the behaviour of its body.        *)
(***************************************************************************)
NoErr == 0

\* the error a failing hook returns carries the hook's own text
ErrOf(h) == h.id

\* map[string]any{...}, given by its keys
MapData(keys) == [kind |-> "map", keys |-> keys]

\* nil, and data no JSON object can be made of
NilData == [kind |-> "nil", keys |-> {}]
Unconvertible == [kind |-> "chan", keys |-> {}]

NoError == [msg |-> "", path |-> <<>>, cause |-> NoErr]

\* fmt.Errorf("<msg> ...: %w", cause)
Errorf(msg, path, cause) == [msg |-> msg, path |-> path, cause |-> cause]

\* convertToContext(data): nil gives the empty context, other data goes
\* through json.Marshal / json.Unmarshal into a map
ConvertToContext(data) ==
  IF data.kind = "nil" THEN [view |-> {}, err |-> NoError]
  ELSE IF data.kind = "map" THEN [view |-> data.keys, err |-> NoError]
  ELSE [view |-> {}, err |-> Errorf("failed to convert data to context", <<>>, NoErr)]

\* ctx := &template.HookContext{...} as the callers of a chain build it
NewContext(output, isPre) ==
  [TemplateName |-> <<"test">>, Template |-> <<>>, Data |-> MapData({}),
   Output |-> output, Metadata |-> {}, IsPreHook |-> isPre]

\* the outputs a chain is executed on: "" and "original"
Originals == {<<>>, <<0>>}

\* bodies of the pre-hooks: return nil / return an error
PreHookKinds == {"ok", "fail"}

\* bodies of the post-hooks:
\*   prepend : return marker + ctx.Output, nil
\*   blank   : return "", nil
\*   fail    : return "", err
\*   failout : return marker + ctx.Output, err
PostHookKinds == {"prepend", "blank", "fail", "failout"}

\* the key a SetDefaultsHook gives a default value to
DefaultKey == "app_name"

\* data, ok := ctx.Data.(map[string]any)
\* if !ok { newData, err := ConvertToContext(ctx.Data); if err != nil { return err }
\*          data = newData; ctx.Data = newData }
\* for key, value := range defaults { if _, exists := data[key]; !exists { data[key] = value } }
SetDefaultsHook(h, ctx) ==
  LET c == ConvertToContext(ctx.Data)
      data == IF ctx.Data.kind = "map" THEN ctx.Data ELSE MapData(c.view)
  IN IF ctx.Data.kind # "map" /\ c.err # NoError
     THEN [err |-> ErrOf(h), ctx |-> ctx]
     ELSE [err |-> NoErr,
           ctx |-> [ctx EXCEPT !.Data = MapData(data.keys \cup {DefaultKey})]]

\* the keys an AddMetadataHook writes in ctx.Metadata
MetadataKeys == {"processed_at", "template_name", "template_content"}

\* ctx.Metadata["processed_at"] = time.Now()
\* ctx.Metadata["template_name"] = ctx.TemplateName
\* ctx.Metadata["template_content"] = ctx.Template
\* return nil
AddMetadataHook(h, ctx) ==
  [err |-> NoErr, ctx |-> [ctx EXCEPT !.Metadata = @ \cup MetadataKeys]]

\* a hook is invoked by calling its closure; the closures a chain makes of
\* itself call back into the chain
RECURSIVE CallPreHook(_, _)
RECURSIVE CallPostHook(_, _)

NoCall == [op |-> "none", hooks |-> <<>>, ctx0 |-> NewContext(<<>>, TRUE),
           ctx |-> NewContext(<<>>, TRUE), out |-> <<>>, err |-> NoErr,
           calls |-> <<>>]

(***************************************************************************)
(* HookChain.ExecutePreHooks / HookChain.ExecutePostHooks                  *)
(* calls records, for every hook invoked, its identity, the ctx.Output it  *)
(* was invoked with and the string it returned.                            *)
(***************************************************************************)
\* a chain that runs every pre-hook and returns the last error
RECURSIVE ExecutePreHooksBestEffort(_, _, _, _, _)
ExecutePreHooksBestEffort(hooks, i, ctx, err, calls) ==
  IF i > Len(hooks) THEN [err |-> err, ctx |-> ctx, calls |-> calls]
  ELSE LET r == CallPreHook(hooks[i], ctx)
           log == Append(calls, [id |-> hooks[i].id, seen |-> ctx.Output, at |-> ctx,
                                 out |-> <<>>])
       IN ExecutePreHooksBestEffort(hooks, i + 1, r.ctx,
                                    IF r.err # NoErr THEN r.err ELSE err, log)

\* a chain that hands every pre-hook a copy of the context it was given
RECURSIVE ExecutePreHooksOnCopies(_, _, _, _, _)
ExecutePreHooksOnCopies(hooks, i, ctx, err, calls) ==
  IF i > Len(hooks) THEN [err |-> NoErr, ctx |-> ctx, calls |-> calls]
  ELSE LET r == CallPreHook(hooks[i], ctx)
           log == Append(calls, [id |-> hooks[i].id, seen |-> ctx.Output, at |-> ctx,
                                 out |-> <<>>])
       IN IF r.err # NoErr
          THEN [err |-> r.err, ctx |-> ctx, calls |-> log]
          ELSE ExecutePreHooksOnCopies(hooks, i + 1, ctx, err, log)

\* for _, hook := range c.preHooks { if err := hook(ctx); err != nil { return err } }
\* return nil
RECURSIVE ExecutePreHooksFrom(_, _, _, _, _)
ExecutePreHooksFrom(hooks, i, ctx, err, calls) ==
  IF i > Len(hooks) THEN [err |-> NoErr, ctx |-> ctx, calls |-> calls]
  ELSE LET r == CallPreHook(hooks[i], ctx)
           log == Append(calls, [id |-> hooks[i].id, seen |-> ctx.Output, at |-> ctx,
                                 out |-> <<>>])
       IN IF r.err # NoErr
          THEN [err |-> r.err, ctx |-> r.ctx, calls |-> log]
          ELSE ExecutePreHooksFrom(hooks, i + 1, r.ctx, err, log)

\* a chain that does not store the returned string in ctx.Output
RECURSIVE ExecutePostHooksUnthreaded(_, _, _, _, _)
ExecutePostHooksUnthreaded(hooks, i, ctx, response, calls) ==
  IF i > Len(hooks)
  THEN [out |-> response, err |-> NoErr, ctx |-> ctx, calls |-> calls]
  ELSE LET r == CallPostHook(hooks[i], ctx)
           log == Append(calls, [id |-> hooks[i].id, seen |-> ctx.Output, at |-> ctx,
                                 out |-> r.out])
       IN IF r.err # NoErr
          THEN [out |-> <<>>, err |-> r.err, ctx |-> r.ctx, calls |-> log]
          ELSE ExecutePostHooksUnthreaded(hooks, i + 1, r.ctx, r.out, log)

\* a chain that returns the string of the failing hook together with the error
RECURSIVE ExecutePostHooksPartial(_, _, _, _, _)
ExecutePostHooksPartial(hooks, i, ctx, response, calls) ==
  IF i > Len(hooks)
  THEN [out |-> response, err |-> NoErr, ctx |-> ctx, calls |-> calls]
  ELSE LET r == CallPostHook(hooks[i], ctx)
           log == Append(calls, [id |-> hooks[i].id, seen |-> ctx.Output, at |-> ctx,
                                 out |-> r.out])
       IN IF r.err # NoErr
          THEN [out |-> r.out, err |-> r.err, ctx |-> r.ctx, calls |-> log]
          ELSE ExecutePostHooksPartial(hooks, i + 1,
                                       [r.ctx EXCEPT !.Output = r.out], r.out, log)

\* a chain whose response starts as the empty string
RECURSIVE ExecutePostHooksNoDefault(_, _, _, _, _)
ExecutePostHooksNoDefault(hooks, i, ctx, response, calls) ==
  IF i > Len(hooks)
  THEN [out |-> IF calls = <<>> THEN <<>> ELSE response, err |-> NoErr,
        ctx |-> ctx, calls |-> calls]
  ELSE LET r == CallPostHook(hooks[i], ctx)
           log == Append(calls, [id |-> hooks[i].id, seen |-> ctx.Output, at |-> ctx,
                                 out |-> r.out])
       IN IF r.err # NoErr
          THEN [out |-> <<>>, err |-> r.err, ctx |-> r.ctx, calls |-> log]
          ELSE ExecutePostHooksNoDefault(hooks, i + 1,
                                         [r.ctx EXCEPT !.Output = r.out], r.out, log)

\* a chain that puts ctx.Output back to what it was given when a hook fails
RECURSIVE ExecutePostHooksRestoring(_, _, _, _, _)
ExecutePostHooksRestoring(hooks, i, ctx, response, calls) ==
  IF i > Len(hooks)
  THEN [out |-> response, err |-> NoErr, ctx |-> ctx, calls |-> calls]
  ELSE LET r == CallPostHook(hooks[i], ctx)
           log == Append(calls, [id |-> hooks[i].id, seen |-> ctx.Output, at |-> ctx,
                                 out |-> r.out])
       IN IF r.err # NoErr
          THEN [out |-> <<>>, err |-> r.err,
                ctx |-> [r.ctx EXCEPT !.Output = log[1].seen], calls |-> log]
          ELSE ExecutePostHooksRestoring(hooks, i + 1,
                                         [r.ctx EXCEPT !.Output = r.out], r.out, log)

\* a chain that takes the returned string only when it is not empty
RECURSIVE ExecutePostHooksSkipEmpty(_, _, _, _, _)
ExecutePostHooksSkipEmpty(hooks, i, ctx, response, calls) ==
  IF i > Len(hooks)
  THEN [out |-> response, err |-> NoErr, ctx |-> ctx, calls |-> calls]
  ELSE LET r == CallPostHook(hooks[i], ctx)
           log == Append(calls, [id |-> hooks[i].id, seen |-> ctx.Output, at |-> ctx,
                                 out |-> r.out])
           out == IF r.out = <<>> THEN response ELSE r.out
       IN IF r.err # NoErr
          THEN [out |-> <<>>, err |-> r.err, ctx |-> r.ctx, calls |-> log]
          ELSE ExecutePostHooksSkipEmpty(hooks, i + 1,
                                         [r.ctx EXCEPT !.Output = out], out, log)

\* response := ctx.Output
\* for _, hook := range c.postHooks {
\*   if out, err := hook(ctx); err != nil { return "", err }
\*   else { response = out; ctx.Output = out } }
\* return response, nil
RECURSIVE ExecutePostHooksFrom(_, _, _, _, _)
ExecutePostHooksFrom(hooks, i, ctx, response, calls) ==
  IF i > Len(hooks)
  THEN [out |-> response, err |-> NoErr, ctx |-> ctx, calls |-> calls]
  ELSE LET r == CallPostHook(hooks[i], ctx)
           log == Append(calls, [id |-> hooks[i].id, seen |-> ctx.Output, at |-> ctx,
                                 out |-> r.out])
       IN IF r.err # NoErr
          THEN [out |-> <<>>, err |-> r.err, ctx |-> r.ctx, calls |-> log]
          ELSE ExecutePostHooksFrom(hooks, i + 1,
                                    [r.ctx EXCEPT !.Output = r.out], r.out, log)

\* a closure that runs the post-hooks of the chain on a copy of the context
AsPostHookDetached(ctx) ==
  LET r == ExecutePostHooksFrom(chainPost, 1, ctx, ctx.Output, <<>>)
  IN [r EXCEPT !.ctx = ctx]

\* the closure c.AsPreHook() returns, called on ctx:
\*   return c.ExecutePreHooks(ctx)
AsPreHook(ctx) == ExecutePreHooksFrom(chainPre, 1, ctx, NoErr, <<>>)

\* the closure c.AsPostHook() returns, called on ctx:
\*   return c.ExecutePostHooks(ctx)
AsPostHook(ctx) == ExecutePostHooksFrom(chainPost, 1, ctx, ctx.Output, <<>>)

\* err := hook(ctx) for a PreHook
CallPreHook(h, ctx) ==
  IF h.kind = "chain"
  THEN LET r == AsPreHook(ctx) IN [err |-> r.err, ctx |-> r.ctx]
  ELSE IF h.kind = "defaults" THEN SetDefaultsHook(h, ctx)
  ELSE IF h.kind = "metadata" THEN AddMetadataHook(h, ctx)
  ELSE [err |-> IF h.kind = "fail" THEN ErrOf(h) ELSE NoErr, ctx |-> ctx]

\* out, err := hook(ctx) for a PostHook
CallPostHook(h, ctx) ==
  IF h.kind = "chain"
  THEN LET r == AsPostHook(ctx) IN [out |-> r.out, err |-> r.err, ctx |-> r.ctx]
  ELSE IF h.kind = "same" THEN [out |-> ctx.Output, err |-> NoErr, ctx |-> ctx]
  ELSE IF h.kind = "assign"
  THEN [out |-> <<h.id>> \o ctx.Output, err |-> NoErr,
        ctx |-> [ctx EXCEPT !.Output = <<h.id, h.id>>]]
  ELSE [out |-> IF h.kind \in {"prepend", "failout"} THEN <<h.id>> \o ctx.Output ELSE <<>>,
        err |-> IF h.kind \in {"fail", "failout"} THEN ErrOf(h) ELSE NoErr,
        ctx |-> ctx]

(***************************************************************************)
(* Engine: template loading, data conversion and execution (engine.go)     *)
(***************************************************************************)
\* the template files under baseDir: simple.tpl renders, faulty.tpl fails at
\* execution; every other path does not exist
Files == {<<"simple", ".tpl">>, <<"faulty", ".tpl">>}

\* template contents given to RenderString: well-formed, and `{{ unclosed_tag`
ValidContent == <<"{{ name }}{{ app_name }}">>
InvalidContent == <<"{{ unclosed_tag">>

\* the text of a template without its variables
RawOutput == <<0>>

\* the mark the value of a variable leaves in the rendered string
VarMarker(key) == IF key = "name" THEN 0 - 1 ELSE 0 - 2

\* the variables a template refers to, in the order they stand in its text:
\* simple.tpl is "Hello, {{ name }}! Welcome to {{ app_name }}."
TemplateVars(tmpl) == <<"name", DefaultKey>>

\* the values of the variables of the view, in the order of vars; a variable
\* the view does not hold renders as the empty string
RECURSIVE Substitute(_, _)
Substitute(vars_, view) ==
  IF vars_ = <<>> THEN <<>>
  ELSE (IF Head(vars_) \in view THEN <<VarMarker(Head(vars_))>> ELSE <<>>)
       \o Substitute(Tail(vars_), view)

\* templatePath := name; if !strings.HasSuffix(templatePath, r.tplExt) { templatePath += r.tplExt }
TemplatePath(name) ==
  IF Len(name) > 0 /\ name[Len(name)] = ".tpl" THEN name ELSE Append(name, ".tpl")

\* a getTemplate that remembers a failed load in the cache
GetTemplateRemembering(cache, path) ==
  IF path \in DOMAIN cache
  THEN [tmpl |-> cache[path], err |-> NoError, cache |-> cache]
  ELSE [tmpl |-> IF path \in disk THEN path ELSE <<>>,
        err |-> IF path \in disk THEN NoError
                ELSE Errorf("failed to load template", path, NoErr),
        cache |-> [k \in (DOMAIN cache) \cup {path} |->
                     IF k = path THEN (IF path \in disk THEN path ELSE <<>>)
                     ELSE cache[k]]]

\* r.getTemplate(path): cached template, or templateSet.FromFile(path) stored in the cache
GetTemplate(cache, path) ==
  IF path \in DOMAIN cache
  THEN [tmpl |-> cache[path], err |-> NoError, cache |-> cache]
  ELSE IF path \notin disk
       THEN [tmpl |-> <<>>, err |-> Errorf("failed to load template", path, NoErr),
             cache |-> cache]
       ELSE [tmpl |-> path, err |-> NoError,
             cache |-> [k \in (DOMAIN cache) \cup {path} |->
                          IF k = path THEN path ELSE cache[k]]]

\* the text of a name or a template: its pieces one after the other, the
\* pieces that hold template syntax split into braces and words
Expand(piece) ==
  IF piece = "{{ name }}{{ app_name }}"
  THEN <<"{", "{", " name ", "}", "}", "{", "{", " app_name ", "}", "}">>
  ELSE IF piece = "{{ unclosed_tag" THEN <<"{", "{", " unclosed_tag">>
  ELSE <<piece>>

RECURSIVE TextOf(_)
TextOf(s) == IF s = <<>> THEN <<>> ELSE Expand(Head(s)) \o TextOf(Tail(s))

\* the places where text has substr
Occurrences(text, substr) ==
  {i \in 0..(Len(text) - Len(substr)) : \A k \in 1..Len(substr) : text[i + k] = substr[k]}

\* strings.Contains(s, substr)
Contains(text, substr) == Occurrences(text, substr) # {}

\* pongo2 parses a template when every tag it opens is closed
Parses(content) ==
  LET text == TextOf(content)
  IN Cardinality(Occurrences(text, <<"{", "{">>) \cup Occurrences(text, <<"{", "%">>))
       = Cardinality(Occurrences(text, <<"}", "}">>) \cup Occurrences(text, <<"%", "}">>))

\* r.templateSet.FromString(templateContent)
FromString(content) ==
  IF ~Parses(content)
  THEN [tmpl |-> <<>>, err |-> Errorf("failed to parse template string", <<>>, NoErr)]
  ELSE [tmpl |-> content, err |-> NoError]

\* tmpl.ExecuteWriter(viewContext, &buf)
ExecuteWriter(tmpl, view) ==
  IF tmpl = <<"faulty", ".tpl">>
  THEN [out |-> <<>>, err |-> Errorf("failed to execute template", tmpl, NoErr)]
  ELSE [out |-> RawOutput \o Substitute(TemplateVars(tmpl), view), err |-> NoError]

\* an engine that hands back what it rendered so far together with the error
EngineRenderLeaky(op, name, data, cache) ==
  LET g == IF op = "RenderTemplate"
           THEN GetTemplate(cache, TemplatePath(name))
           ELSE FromString(name) @@ [cache |-> cache]
      c == ConvertToContext(data)
      x == ExecuteWriter(g.tmpl, c.view)
  IN IF g.err # NoError THEN [out |-> RawOutput, err |-> g.err, cache |-> g.cache]
     ELSE IF c.err # NoError THEN [out |-> RawOutput, err |-> c.err, cache |-> g.cache]
     ELSE IF x.err # NoError THEN [out |-> RawOutput, err |-> x.err, cache |-> g.cache]
     ELSE [out |-> x.out, err |-> NoError, cache |-> g.cache]

\* the engine part of RenderTemplate / RenderString: load or parse the
\* template, convert the data, execute; every failure returns "", err
EngineRender(op, name, data, cache) ==
  LET g == IF op = "RenderTemplate"
           THEN GetTemplate(cache, TemplatePath(name))
           ELSE FromString(name) @@ [cache |-> cache]
      c == ConvertToContext(data)
      x == ExecuteWriter(g.tmpl, c.view)
  IN IF g.err # NoError THEN [out |-> <<>>, err |-> g.err, cache |-> g.cache]
     ELSE IF c.err # NoError THEN [out |-> <<>>, err |-> c.err, cache |-> g.cache]
     ELSE IF x.err # NoError THEN [out |-> <<>>, err |-> x.err, cache |-> g.cache]
     ELSE [out |-> x.out, err |-> NoError, cache |-> g.cache]

\* a render that writes to its first writer only
WriteAllFirstOnly(writers, i, str, written) ==
  IF writers = <<>> THEN [err |-> NoError, written |-> written]
  ELSE IF writers[1] = "fail"
       THEN [err |-> Errorf("write failed", <<>>, 1), written |-> written]
       ELSE [err |-> NoError, written |-> Append(written, [w |-> 1, str |-> str])]

\* for _, w := range out { if _, err := w.Write([]byte(renderedStr)); err != nil { return "", err } }
RECURSIVE WriteAll(_, _, _, _)
WriteAll(writers, i, str, written) ==
  IF i > Len(writers) THEN [err |-> NoError, written |-> written]
  ELSE IF writers[i] = "fail"
       THEN [err |-> Errorf("write failed", <<>>, i), written |-> written]
       ELSE WriteAll(writers, i + 1, str, Append(written, [w |-> i, str |-> str]))

\* a render that returns what it rendered when a writer fails
WriteAndReturnPartial(renderedStr, writers) ==
  LET w == WriteAll(writers, 1, renderedStr, <<>>)
  IN [out |-> renderedStr, err |-> w.err, written |-> w.written]

\* the end of RenderTemplate / RenderString: write renderedStr to every
\* writer; return "", err when a writer fails, renderedStr, nil otherwise
WriteAndReturn(renderedStr, writers) ==
  LET w == WriteAll(writers, 1, renderedStr, <<>>)
  IN IF w.err # NoError
     THEN [out |-> <<>>, err |-> w.err, written |-> w.written]
     ELSE [out |-> renderedStr, err |-> NoError, written |-> w.written]

\* r.RenderString(templateContent, data, out...) on an engine without hooks
RenderString(templateContent, data, out, cache) ==
  LET e == EngineRender("RenderString", templateContent, data, cache)
      w == WriteAndReturn(e.out, out)
  IN IF e.err # NoError
     THEN [out |-> <<>>, err |-> e.err, written |-> <<>>, cache |-> e.cache]
     ELSE [out |-> w.out, err |-> w.err, written |-> w.written, cache |-> e.cache]

\* r.RenderTemplate(name, data, out...) on an engine without hooks
RenderTemplate(name, data, out, cache) ==
  LET e == EngineRender("RenderTemplate", name, data, cache)
      w == WriteAndReturn(e.out, out)
  IN IF e.err # NoError
     THEN [out |-> <<>>, err |-> e.err, written |-> <<>>, cache |-> e.cache]
     ELSE [out |-> w.out, err |-> w.err, written |-> w.written, cache |-> e.cache]

\* a detection that knows variable tags only
isTemplateContentVariablesOnly(s) == Contains(TextOf(s), <<"{", "{">>)

\* strings.Contains(s, "{{") || strings.Contains(s, "{%")
isTemplateContent(s) ==
  Contains(TextOf(s), <<"{", "{">>) \/ Contains(TextOf(s), <<"{", "%">>)

\* if isTemplateContent(name) { return r.RenderString(name, data, out...) }
\* return r.RenderTemplate(name, data, out...)
Render(name, data, out, cache) ==
  IF isTemplateContent(name)
  THEN RenderString(name, data, out, cache)
  ELSE RenderTemplate(name, data, out, cache)

\* the render calls made: a template that renders, a missing file, data that
\* cannot be converted, a template that fails at execution, and template
\* strings that parse and that do not
Requests ==
  {[op |-> "RenderTemplate", name |-> <<"simple">>, data |-> MapData({"name"})],
   [op |-> "RenderTemplate", name |-> <<"missing">>, data |-> MapData({})],
   [op |-> "RenderTemplate", name |-> <<"simple">>, data |-> Unconvertible],
   [op |-> "RenderTemplate", name |-> <<"faulty">>, data |-> NilData],
   [op |-> "RenderString", name |-> ValidContent, data |-> NilData],
   [op |-> "RenderString", name |-> InvalidContent, data |-> MapData({})]}

\* the writers handed to a render: none, one, and two of which the second fails
WriterLists == {<<>>, <<"ok">>, <<"ok", "fail">>}

\* priorities hooks are registered on the renderer with: none given, and -1
RenderPriorityArgs == {<<>>, <<0 - 1>>}

\* bodies of the post-hooks registered on the renderer
RenderPostHookKinds == {"prepend", "fail"}

\* the caller is between two render calls
Returned(rd) == rd.state \in {"Idle", "Completed", "Aborted"}

NoRender ==
  [state |-> "Idle", req |-> [op |-> "none", name |-> <<>>, data |-> NilData],
   writers |-> <<>>, ctx |-> NewContext(<<>>, TRUE), pre |-> <<>>,
   seq |-> <<>>, i |-> 0, raw |-> <<>>,
   out |-> <<>>, err |-> NoError, trace |-> <<>>, written |-> <<>>]

(***************************************************************************)
(* The hook stages of a render (protocol of the RenderOrchestrator)        *)
(***************************************************************************)
\* a renderer that keeps one HookContext and uses it again for every render
StartRenderReused(req, pre) ==
  [state |-> "PreHooksRunning", req |-> req, writers |-> <<>>,
   ctx |-> [render.ctx EXCEPT
              !.TemplateName = IF req.op = "RenderTemplate" THEN req.name ELSE <<>>,
              !.Template = IF req.op = "RenderString" THEN req.name ELSE <<>>,
              !.Data = req.data, !.IsPreHook = TRUE],
   pre |-> pre, seq |-> pre, i |-> 1, raw |-> <<>>, out |-> <<>>,
   err |-> NoError, trace |-> <<>>, written |-> <<>>]

\* step 1 and 2: build the HookContext, obtain the ordered pre-hooks
StartRender(req, pre) ==
  [state |-> "PreHooksRunning", req |-> req, writers |-> <<>>,
   ctx |-> [TemplateName |-> IF req.op = "RenderTemplate" THEN req.name ELSE <<>>,
            Template |-> IF req.op = "RenderString" THEN req.name ELSE <<>>,
            Data |-> req.data, Output |-> <<>>, Metadata |-> {},
            IsPreHook |-> TRUE],
   pre |-> pre, seq |-> pre, i |-> 1, raw |-> <<>>, out |-> <<>>,
   err |-> NoError, trace |-> <<>>, written |-> <<>>]

\* a render that carries on after a failed pre-hook
StepPreHookLenient(rd) ==
  LET h == rd.seq[rd.i]
      r == CallPreHook(h, rd.ctx)
  IN [rd EXCEPT !.ctx = r.ctx, !.i = rd.i + 1,
                !.trace = Append(rd.trace, [ev |-> "pre", hook |-> h,
                                            seen |-> rd.ctx.Output, at |-> rd.ctx]),
                !.err = IF r.err # NoErr
                        THEN Errorf("pre-hook failed", <<>>, r.err) ELSE rd.err]

\* a render that looks its next pre-hook up in the registry as it is now
StepPreHookLive(rd) ==
  LET live == CollectHooks(preHooks, CHOOSE keys \in KeyOrders(preHooks) : TRUE)
      h == live[rd.i]
      r == CallPreHook(h, rd.ctx)
      tr == Append(rd.trace, [ev |-> "pre", hook |-> h, seen |-> rd.ctx.Output, at |-> rd.ctx])
  IN IF r.err # NoErr
     THEN [rd EXCEPT !.state = "Aborted", !.ctx = r.ctx, !.trace = tr,
                     !.out = <<>>,
                     !.err = Errorf("pre-hook failed", <<>>, r.err)]
     ELSE [rd EXCEPT !.ctx = r.ctx, !.i = rd.i + 1, !.trace = tr]

\* step 2: invoke the next pre-hook; a failure aborts the render
StepPreHook(rd) ==
  LET h == rd.seq[rd.i]
      r == CallPreHook(h, rd.ctx)
      tr == Append(rd.trace, [ev |-> "pre", hook |-> h, seen |-> rd.ctx.Output, at |-> rd.ctx])
  IN IF r.err # NoErr
     THEN [rd EXCEPT !.state = "Aborted", !.ctx = r.ctx, !.trace = tr,
                     !.out = <<>>,
                     !.err = Errorf("pre-hook failed", <<>>, r.err)]
     ELSE [rd EXCEPT !.ctx = r.ctx, !.i = rd.i + 1, !.trace = tr]

\* a render that hands the engine the data the caller passed
EngineDataOfCaller(rd) == rd.req.data

\* step 3: the engine is given ctx.Data, as the pre-hooks left it
EngineData(rd) == rd.ctx.Data

\* a render that takes its output from the post-hook loop only
StepEngineUnstored(rd, r, post) ==
  LET tr == Append(rd.trace, [ev |-> "engine", hook |-> [id |-> 0, kind |-> "", prio |-> 0],
                              seen |-> rd.ctx.Output, at |-> rd.ctx])
  IN IF r.err # NoError
     THEN [rd EXCEPT !.state = "Aborted", !.trace = tr, !.out = r.out, !.err = r.err]
     ELSE [rd EXCEPT !.state = "PostHooksRunning", !.trace = tr, !.raw = r.out,
                     !.ctx = [rd.ctx EXCEPT !.Output = IF post = <<>> THEN <<>> ELSE r.out,
                                           !.IsPreHook = FALSE],
                     !.seq = post, !.i = 1]

\* a render whose context stays in the pre stage after the engine has run
StepEngineStageKept(rd, r, post) ==
  LET tr == Append(rd.trace, [ev |-> "engine", hook |-> [id |-> 0, kind |-> "", prio |-> 0],
                              seen |-> rd.ctx.Output, at |-> rd.ctx])
  IN IF r.err # NoError
     THEN [rd EXCEPT !.state = "Aborted", !.trace = tr, !.out = r.out, !.err = r.err]
     ELSE [rd EXCEPT !.state = "PostHooksRunning", !.trace = tr, !.raw = r.out,
                     !.ctx = [rd.ctx EXCEPT !.Output = r.out],
                     !.seq = post, !.i = 1]

\* steps 3 and 4: the engine renders ctx.Data; a failure aborts the render,
\* otherwise ctx.Output is the raw string and the ordered post-hooks are obtained
StepEngine(rd, r, post) ==
  LET tr == Append(rd.trace, [ev |-> "engine", hook |-> [id |-> 0, kind |-> "", prio |-> 0],
                              seen |-> rd.ctx.Output, at |-> rd.ctx])
  IN IF r.err # NoError
     THEN [rd EXCEPT !.state = "Aborted", !.trace = tr, !.out = r.out, !.err = r.err]
     ELSE [rd EXCEPT !.state = "PostHooksRunning", !.trace = tr, !.raw = r.out,
                     !.ctx = [rd.ctx EXCEPT !.Output = r.out, !.IsPreHook = FALSE],
                     !.seq = post, !.i = 1]

\* a render that returns the output reached so far when a post-hook fails
StepPostHookPartial(rd) ==
  LET h == rd.seq[rd.i]
      r == CallPostHook(h, rd.ctx)
      tr == Append(rd.trace, [ev |-> "post", hook |-> h, seen |-> rd.ctx.Output, at |-> rd.ctx])
  IN IF r.err # NoErr
     THEN [rd EXCEPT !.state = "Aborted", !.ctx = r.ctx, !.trace = tr,
                     !.out = rd.ctx.Output,
                     !.err = Errorf("post-hook failed", <<>>, r.err)]
     ELSE [rd EXCEPT !.ctx = [r.ctx EXCEPT !.Output = r.out], !.i = rd.i + 1,
                     !.trace = tr]

\* a render that invokes a failed post-hook a second time before it gives up
StepPostHookRetry(rd) ==
  LET h == rd.seq[rd.i]
      r == CallPostHook(h, rd.ctx)
      tr == Append(rd.trace, [ev |-> "post", hook |-> h, seen |-> rd.ctx.Output, at |-> rd.ctx])
      again == \E k \in 1..Len(rd.trace) : rd.trace[k].ev = "post" /\ rd.trace[k].hook = h
  IN IF r.err # NoErr /\ again
     THEN [rd EXCEPT !.state = "Aborted", !.ctx = r.ctx, !.trace = tr,
                     !.out = <<>>,
                     !.err = Errorf("post-hook failed", <<>>, r.err)]
     ELSE IF r.err # NoErr THEN [rd EXCEPT !.trace = tr]
     ELSE [rd EXCEPT !.ctx = [r.ctx EXCEPT !.Output = r.out], !.i = rd.i + 1,
                     !.trace = tr]

\* step 5: invoke the next post-hook; its string replaces ctx.Output, a
\* failure aborts the render and no output is returned
StepPostHook(rd) ==
  LET h == rd.seq[rd.i]
      r == CallPostHook(h, rd.ctx)
      tr == Append(rd.trace, [ev |-> "post", hook |-> h, seen |-> rd.ctx.Output, at |-> rd.ctx])
  IN IF r.err # NoErr
     THEN [rd EXCEPT !.state = "Aborted", !.ctx = r.ctx, !.trace = tr,
                     !.out = <<>>,
                     !.err = Errorf("post-hook failed", <<>>, r.err)]
     ELSE [rd EXCEPT !.ctx = [r.ctx EXCEPT !.Output = r.out], !.i = rd.i + 1,
                     !.trace = tr]

\* step 6: hand the final output to the writers and return it
StepFinish(rd, writers) ==
  LET w == WriteAndReturn(rd.ctx.Output, writers)
  IN IF w.err # NoError
     THEN [rd EXCEPT !.state = "Aborted", !.out = w.out, !.err = w.err,
                     !.writers = writers, !.written = w.written]
     ELSE [rd EXCEPT !.state = "Completed", !.out = w.out,
                     !.writers = writers, !.written = w.written]

(***************************************************************************)
(* Engine: the state goroutines share through one Engine                   *)
(***************************************************************************)
\* the filters Load registers from defaultFuncMaps(), the engine's own
DefaultFilters == [n \in {"trim", "lowerfirst"} |-> 0]

\* the Engine NewRenderer(WithBaseDir(dir)) returns: Load has made the first
\* template set and has put the (empty) global data in its Globals
NewRenderer ==
  [templateSet |-> 1, sets |-> <<[Globals |-> {}]>>, globalData |-> {},
   filters |-> DefaultFilters, templates |-> EmptyMap]

\* no *pongo2.Template
NoTemplate == [file |-> <<>>, set |-> 0]

\* no filter is registered under the name
NoFilter == 0 - 1

\* a goroutine that runs no method of the Engine
IdleGoroutine ==
  [pc |-> "idle", op |-> "none", name |-> <<>>, data |-> NilData, fn |-> 0,
   prior |-> NoFilter, view |-> {}, tmpl |-> NoTemplate, promised |-> {},
   out |-> <<>>, err |-> NoError]

NoHistory ==
  [calls |-> 0, loads |-> [p \in {} |-> 0], promised |-> {}, fatal |-> FALSE]

(***************************************************************************)
(* Initial state: NewHooksManager, NewHookChain, NewRenderer                                        *)
(***************************************************************************)
\* a constructor that makes bucket 0 with one zero-valued slot in each map
NewHooksManagerSeeded ==
  [preHooks |-> [k \in {0} |-> <<0>>], postHooks |-> [k \in {0} |-> <<0>>]]

\* &HookManager{preHooks: make(map[int][]PreHook, 0), postHooks: make(map[int][]PostHook, 0)}
NewHooksManager == [preHooks |-> EmptyMap, postHooks |-> EmptyMap]

Init ==
  /\ preHooks = NewHooksManager.preHooks
  /\ postHooks = NewHooksManager.postHooks
  /\ mu = [writer |-> NoThread, readers |-> {}]
  /\ pc = [t \in Threads |-> "idle"]
  /\ args = [t \in Threads |-> NoArgs]
  /\ hooksLocal = [t \in Threads |-> <<>>]
  /\ ret = [t \in Threads |-> NoRet]
  /\ nextId = 1
  /\ regLog = <<>>
  /\ regThreads = {}
  /\ chainPre = <<>>
  /\ chainPost = <<>>
  /\ last = NoCall
  /\ chains = <<>>
  /\ templates = NewRenderer.templates
  /\ render = NoRender
  /\ other = NoRender
  /\ templateSet = NewRenderer.templateSet
  /\ sets = NewRenderer.sets
  /\ globalData = NewRenderer.globalData
  /\ filters = NewRenderer.filters
  /\ engineMu = [writer |-> NoThread, readers |-> {}]
  /\ goroutines = [t \in Threads |-> IdleGoroutine]
  /\ hist = NoHistory
  /\ disk = Files

(***************************************************************************)
(* HookManager.AddPreHook(hook, priority...)                               *)
(***************************************************************************)
PriorityArgs == {<<>>} \cup {<<p>> : p \in Prios}

AddPreHookLock(t, cap) ==
  /\ pc[t] = "idle"
  /\ nextId <= cap
  /\ CanLock(mu)
  /\ mu' = [mu EXCEPT !.writer = t]
  /\ \E priority \in PriorityArgs :
       args' = [args EXCEPT ![t] = [hook |-> nextId, priority |-> priority]]
  /\ nextId' = nextId + 1
  /\ pc' = [pc EXCEPT ![t] = "pre_lookup"]
  /\ UNCHANGED <<preHooks, postHooks, hooksLocal, ret, regLog, regThreads, chainVars, engineVars>>

AddPreHookLookup(t) ==
  /\ pc[t] = "pre_lookup"
  /\ hooksLocal' = [hooksLocal EXCEPT
                      ![t] = LookupBucket(preHooks, PriorityOf(args[t].priority))]
  /\ pc' = [pc EXCEPT ![t] = "pre_store"]
  /\ UNCHANGED <<preHooks, postHooks, mu, args, ret, nextId, regLog, regThreads, chainVars, engineVars>>

AddPreHookStore(t) ==
  /\ pc[t] = "pre_store"
  /\ preHooks' = StoreBucket(preHooks, PriorityOf(args[t].priority),
                             hooksLocal[t], args[t].hook)
  /\ pc' = [pc EXCEPT ![t] = "pre_unlock"]
  /\ UNCHANGED <<postHooks, mu, args, hooksLocal, ret, nextId, regLog, regThreads, chainVars, engineVars>>

AddPreHookUnlock(t) ==
  /\ pc[t] = "pre_unlock"
  /\ mu' = [mu EXCEPT !.writer = IF mu.writer = t THEN NoThread ELSE mu.writer]
  /\ regLog' = Append(regLog, [kind |-> "pre", id |-> args[t].hook,
                               priority |-> args[t].priority])
  /\ regThreads' = regThreads \cup {t}
  /\ pc' = [pc EXCEPT ![t] = "idle"]
  /\ args' = [args EXCEPT ![t] = NoArgs]
  /\ hooksLocal' = [hooksLocal EXCEPT ![t] = <<>>]
  /\ UNCHANGED <<preHooks, postHooks, ret, nextId, chainVars, engineVars>>

(***************************************************************************)
(* HookManager.AddPostHook(hook, priority...)                              *)
(***************************************************************************)
AddPostHookLock(t, cap) ==
  /\ pc[t] = "idle"
  /\ nextId <= cap
  /\ CanLock(mu)
  /\ mu' = [mu EXCEPT !.writer = t]
  /\ \E priority \in PriorityArgs :
       args' = [args EXCEPT ![t] = [hook |-> nextId, priority |-> priority]]
  /\ nextId' = nextId + 1
  /\ pc' = [pc EXCEPT ![t] = "post_lookup"]
  /\ UNCHANGED <<preHooks, postHooks, hooksLocal, ret, regLog, regThreads, chainVars, engineVars>>

AddPostHookLookup(t) ==
  /\ pc[t] = "post_lookup"
  /\ hooksLocal' = [hooksLocal EXCEPT
                      ![t] = LookupBucket(postHooks, PriorityOf(args[t].priority))]
  /\ pc' = [pc EXCEPT ![t] = "post_store"]
  /\ UNCHANGED <<preHooks, postHooks, mu, args, ret, nextId, regLog, regThreads, chainVars, engineVars>>

AddPostHookStore(t) ==
  /\ pc[t] = "post_store"
  /\ postHooks' = StoreBucket(postHooks, PriorityOf(args[t].priority),
                              hooksLocal[t], args[t].hook)
  /\ pc' = [pc EXCEPT ![t] = "post_unlock"]
  /\ UNCHANGED <<preHooks, mu, args, hooksLocal, ret, nextId, regLog, regThreads, chainVars, engineVars>>

AddPostHookUnlock(t) ==
  /\ pc[t] = "post_unlock"
  /\ mu' = [mu EXCEPT !.writer = IF mu.writer = t THEN NoThread ELSE mu.writer]
  /\ regLog' = Append(regLog, [kind |-> "post", id |-> args[t].hook,
                               priority |-> args[t].priority])
  /\ regThreads' = regThreads \cup {t}
  /\ pc' = [pc EXCEPT ![t] = "idle"]
  /\ args' = [args EXCEPT ![t] = NoArgs]
  /\ hooksLocal' = [hooksLocal EXCEPT ![t] = <<>>]
  /\ UNCHANGED <<preHooks, postHooks, ret, nextId, chainVars, engineVars>>

(***************************************************************************)
(* HookManager.PreHooks() / HookManager.PostHooks()                        *)
(***************************************************************************)
PreHooksCollect(t) ==
  /\ pc[t] = "idle"
  /\ CanRLock(mu)
  /\ mu' = [mu EXCEPT !.readers = @ \cup {t}]
  /\ \E keys \in KeyOrders(preHooks) :
       ret' = [ret EXCEPT ![t] = [kind |-> "pre", out |-> CollectHooks(preHooks, keys)]]
  /\ pc' = [pc EXCEPT ![t] = "pre_runlock"]
  /\ UNCHANGED <<preHooks, postHooks, args, hooksLocal, nextId, regLog, regThreads, chainVars, engineVars>>

\* deferred RUnlock; the caller receives ret[t].out
PreHooksRUnlock(t) ==
  /\ pc[t] = "pre_runlock"
  /\ mu' = [mu EXCEPT !.readers = @ \ {t}]
  /\ pc' = [pc EXCEPT ![t] = "idle"]
  /\ ret' = [ret EXCEPT ![t] = NoRet]
  /\ UNCHANGED <<preHooks, postHooks, args, hooksLocal, nextId, regLog, regThreads, chainVars, engineVars>>

PostHooksCollect(t) ==
  /\ pc[t] = "idle"
  /\ CanRLock(mu)
  /\ mu' = [mu EXCEPT !.readers = @ \cup {t}]
  /\ \E keys \in KeyOrders(postHooks) :
       ret' = [ret EXCEPT ![t] = [kind |-> "post", out |-> CollectHooks(postHooks, keys)]]
  /\ pc' = [pc EXCEPT ![t] = "post_runlock"]
  /\ UNCHANGED <<preHooks, postHooks, args, hooksLocal, nextId, regLog, regThreads, chainVars, engineVars>>

\* deferred RUnlock; the caller receives ret[t].out
PostHooksRUnlock(t) ==
  /\ pc[t] = "post_runlock"
  /\ mu' = [mu EXCEPT !.readers = @ \ {t}]
  /\ pc' = [pc EXCEPT ![t] = "idle"]
  /\ ret' = [ret EXCEPT ![t] = NoRet]
  /\ UNCHANGED <<preHooks, postHooks, args, hooksLocal, nextId, regLog, regThreads, chainVars, engineVars>>

\* one thread uses the HookManager
Next ==
  \/ AddPreHookLock(MainThread, MaxRegs)
  \/ AddPreHookLookup(MainThread)
  \/ AddPreHookStore(MainThread)
  \/ AddPreHookUnlock(MainThread)
  \/ AddPostHookLock(MainThread, MaxRegs)
  \/ AddPostHookLookup(MainThread)
  \/ AddPostHookStore(MainThread)
  \/ AddPostHookUnlock(MainThread)
  \/ PreHooksCollect(MainThread)
  \/ PreHooksRUnlock(MainThread)
  \/ PostHooksCollect(MainThread)
  \/ PostHooksRUnlock(MainThread)

Spec == Init /\ [][Next]_vars

\* several threads use the HookManager concurrently
NextConc ==
  \E t \in Threads :
    \/ AddPreHookLock(t, MaxConcRegs)
    \/ AddPreHookLookup(t)
    \/ AddPreHookStore(t)
    \/ AddPreHookUnlock(t)
    \/ AddPostHookLock(t, MaxConcRegs)
    \/ AddPostHookLookup(t)
    \/ AddPostHookStore(t)
    \/ AddPostHookUnlock(t)
    \/ PreHooksCollect(t)
    \/ PreHooksRUnlock(t)
    \/ PostHooksCollect(t)
    \/ PostHooksRUnlock(t)

SpecConc == Init /\ [][NextConc]_vars

(***************************************************************************)
(* HookChain                                                               *)
(***************************************************************************)
\* the chain whose lists are chainPre and chainPost, alone on the heap
TheChain == <<[preHooks |-> chainPre, postHooks |-> chainPost]>>

\* an AddPreHook with a value receiver: the hook goes to a copy of the chain
HookChain_AddPreHookToCopy(heap, c, hook) ==
  [heap |-> Append(heap, [heap[c] EXCEPT !.preHooks = Append(@, hook)]),
   ret |-> Len(heap) + 1]

\* func (c *HookChain) AddPreHook(hook PreHook) *HookChain:
\* c.preHooks = append(c.preHooks, hook); return c
HookChain_AddPreHook(heap, c, hook) ==
  [heap |-> [heap EXCEPT ![c].preHooks = Append(@, hook)], ret |-> c]

\* func (c *HookChain) AddPostHook(hook PostHook) *HookChain:
\* c.postHooks = append(c.postHooks, hook); return c
HookChain_AddPostHook(heap, c, hook) ==
  [heap |-> [heap EXCEPT ![c].postHooks = Append(@, hook)], ret |-> c]

\* chain.AddPreHook(hook)
ChainAddPreHook ==
  /\ Len(chainPre) < MaxChain
  /\ \E kind \in PreHookKinds :
       LET hook == [id |-> Len(chainPre) + 1, kind |-> kind]
           r == HookChain_AddPreHook(TheChain, 1, hook)
       IN chainPre' = r.heap[1].preHooks
  /\ UNCHANGED <<chainPost, last, chains>>
  /\ UNCHANGED <<preHooks, postHooks, mu, pc, args, hooksLocal, ret, nextId,
                 regLog, regThreads, engineVars>>

\* chain.AddPostHook(hook)
ChainAddPostHook ==
  /\ Len(chainPost) < MaxChain
  /\ \E kind \in PostHookKinds :
       LET hook == [id |-> Len(chainPost) + 1, kind |-> kind]
           r == HookChain_AddPostHook(TheChain, 1, hook)
       IN chainPost' = r.heap[1].postHooks
  /\ UNCHANGED <<chainPre, last, chains>>
  /\ UNCHANGED <<preHooks, postHooks, mu, pc, args, hooksLocal, ret, nextId,
                 regLog, regThreads, engineVars>>

\* err := chain.ExecutePreHooks(ctx)
ExecutePreHooks ==
  /\ LET ctx0 == NewContext(<<>>, TRUE)
         r == ExecutePreHooksFrom(chainPre, 1, ctx0, NoErr, <<>>)
     IN last' = [op |-> "ExecutePreHooks", hooks |-> chainPre, ctx0 |-> ctx0,
                 ctx |-> r.ctx, out |-> <<>>, err |-> r.err, calls |-> r.calls]
  /\ UNCHANGED <<chainPre, chainPost, chains>>
  /\ UNCHANGED <<preHooks, postHooks, mu, pc, args, hooksLocal, ret, nextId,
                 regLog, regThreads, engineVars>>

\* result, err := chain.ExecutePostHooks(ctx)
ExecutePostHooks ==
  /\ \E original \in Originals :
       LET ctx0 == NewContext(original, FALSE)
           r == ExecutePostHooksFrom(chainPost, 1, ctx0, ctx0.Output, <<>>)
       IN last' = [op |-> "ExecutePostHooks", hooks |-> chainPost, ctx0 |-> ctx0,
                   ctx |-> r.ctx, out |-> r.out, err |-> r.err, calls |-> r.calls]
  /\ UNCHANGED <<chainPre, chainPost, chains>>
  /\ UNCHANGED <<preHooks, postHooks, mu, pc, args, hooksLocal, ret, nextId,
                 regLog, regThreads, engineVars>>

\* preHook := chain.AsPreHook(); err = preHook(ctx)
CallAsPreHook ==
  /\ LET ctx0 == NewContext(<<>>, TRUE)
         r == AsPreHook(ctx0)
     IN last' = [op |-> "AsPreHook", hooks |-> chainPre, ctx0 |-> ctx0,
                 ctx |-> r.ctx, out |-> <<>>, err |-> r.err, calls |-> r.calls]
  /\ UNCHANGED <<chainPre, chainPost, chains>>
  /\ UNCHANGED <<preHooks, postHooks, mu, pc, args, hooksLocal, ret, nextId,
                 regLog, regThreads, engineVars>>

\* postHook := chain.AsPostHook(); result, err = postHook(ctx)
CallAsPostHook ==
  /\ \E original \in Originals :
       LET ctx0 == NewContext(original, FALSE)
           r == AsPostHook(ctx0)
       IN last' = [op |-> "AsPostHook", hooks |-> chainPost, ctx0 |-> ctx0,
                   ctx |-> r.ctx, out |-> r.out, err |-> r.err, calls |-> r.calls]
  /\ UNCHANGED <<chainPre, chainPost, chains>>
  /\ UNCHANGED <<preHooks, postHooks, mu, pc, args, hooksLocal, ret, nextId,
                 regLog, regThreads, engineVars>>

NextChain ==
  \/ ChainAddPreHook
  \/ ChainAddPostHook
  \/ ExecutePreHooks
  \/ ExecutePostHooks
  \/ CallAsPreHook
  \/ CallAsPostHook

SpecChain == Init /\ [][NextChain]_vars

(***************************************************************************)
(* A HookChain registered in a HookManager through its closures            *)
(***************************************************************************)
\* the hook lists given to WithPreHooksChain / WithPostHooksChain
OptionHooks(kinds) ==
  UNION {{[i \in 1..n |-> [id |-> i, kind |-> k[i]]] : k \in [1..n -> kinds]} :
           n \in 0..MaxOptionHooks}

\* WithPreHooksChain(hooks...): hc.preHooks = append(hc.preHooks, hooks...)
WithPreHooksChain(hc, hooks) == [hc EXCEPT !.preHooks = hc.preHooks \o hooks]

\* WithPostHooksChain(hooks...): hc.postHooks = append(hc.postHooks, hooks...)
WithPostHooksChain(hc, hooks) == [hc EXCEPT !.postHooks = hc.postHooks \o hooks]

\* c := &HookChain{preHooks: make([]PreHook, 0), postHooks: make([]PostHook, 0)}
EmptyChain == [preHooks |-> <<>>, postHooks |-> <<>>]

\* the priorities the chain and the independent hooks are registered with
ComposePriorityArgs == {<<5>>, <<10>>}

\* the hooks registered in the manager: a closure of the chain, or an
\* independent hook that succeeds
ComposePreKinds == {"chain", "ok"}
ComposePostKinds == {"chain", "prepend"}

\* the context the hooks of a manager are run on
ComposeContext(output, isPre) ==
  [NewContext(output, isPre) EXCEPT !.TemplateName = <<>>]

\* the hooks a call of the manager's hook h on ctx invokes: the hooks of the
\* chain when h is a closure of the chain, h itself otherwise
PreInvocations(h, ctx) ==
  IF h.kind = "chain"
  THEN LET inner == AsPreHook(ctx).calls
       IN [k \in 1..Len(inner) |->
             [via |-> h.id, prio |-> h.prio, id |-> inner[k].id,
              seen |-> inner[k].seen, out |-> inner[k].out]]
  ELSE <<[via |-> h.id, prio |-> h.prio, id |-> 0, seen |-> ctx.Output, out |-> <<>>]>>

PostInvocations(h, ctx) ==
  IF h.kind = "chain"
  THEN LET inner == AsPostHook(ctx).calls
       IN [k \in 1..Len(inner) |->
             [via |-> h.id, prio |-> h.prio, id |-> inner[k].id,
              seen |-> inner[k].seen, out |-> inner[k].out]]
  ELSE <<[via |-> h.id, prio |-> h.prio, id |-> 0, seen |-> ctx.Output,
          out |-> CallPostHook(h, ctx).out]>>

\* for _, hook := range hooks { err := hook(ctx); require.NoError(t, err) }
RECURSIVE RunPreHooksFrom(_, _, _, _)
RunPreHooksFrom(hooks, i, ctx, calls) ==
  IF i > Len(hooks) THEN [err |-> NoErr, ctx |-> ctx, out |-> <<>>, calls |-> calls]
  ELSE LET r == CallPreHook(hooks[i], ctx)
           log == calls \o PreInvocations(hooks[i], ctx)
       IN IF r.err # NoErr
          THEN [err |-> r.err, ctx |-> r.ctx, out |-> <<>>, calls |-> log]
          ELSE RunPreHooksFrom(hooks, i + 1, r.ctx, log)

\* for _, hook := range hooks {
\*   output, err = hook(&HookContext{Data: ctx.Data, Metadata: ctx.Metadata, Output: output})
\*   require.NoError(t, err) }
RECURSIVE RunPostHooksFrom(_, _, _, _, _)
RunPostHooksFrom(hooks, i, ctx, output, calls) ==
  IF i > Len(hooks) THEN [err |-> NoErr, ctx |-> ctx, out |-> output, calls |-> calls]
  ELSE LET c == [ctx EXCEPT !.Output = output]
           r == CallPostHook(hooks[i], c)
           log == calls \o PostInvocations(hooks[i], c)
       IN IF r.err # NoErr
          THEN [err |-> r.err, ctx |-> ctx, out |-> r.out, calls |-> log]
          ELSE RunPostHooksFrom(hooks, i + 1, ctx, r.out, log)

\* chain := NewHookChain(WithPreHooksChain(hooks...)) or
\* chain := NewHookChain(WithPostHooksChain(hooks...))
ComposeNewChain ==
  /\ nextId = 1
  /\ last = NoCall
  /\ chainPre = <<>> /\ chainPost = <<>>
  /\ \/ \E hooks \in OptionHooks(PreHookKinds) \ {<<>>} :
          /\ chainPre' = WithPreHooksChain(EmptyChain, hooks).preHooks
          /\ chainPost' = WithPreHooksChain(EmptyChain, hooks).postHooks
     \/ \E hooks \in OptionHooks(RenderPostHookKinds) \ {<<>>} :
          /\ chainPre' = WithPostHooksChain(EmptyChain, hooks).preHooks
          /\ chainPost' = WithPostHooksChain(EmptyChain, hooks).postHooks
  /\ UNCHANGED <<last, chains>>
  /\ UNCHANGED <<preHooks, postHooks, mu, pc, args, hooksLocal, ret, nextId,
                 regLog, regThreads, engineVars>>

\* manager.AddPreHook(chain.AsPreHook(), p) / manager.AddPreHook(hook, p)
ManagerAddPreHook ==
  /\ nextId <= MaxUnits
  /\ \E kind \in ComposePreKinds, priority \in ComposePriorityArgs :
       LET p == PriorityOf(priority)
           h == [id |-> nextId, kind |-> kind, prio |-> p]
       IN preHooks' = StoreBucket(preHooks, p, LookupBucket(preHooks, p), h)
  /\ nextId' = nextId + 1
  /\ UNCHANGED <<postHooks, registryVars, chainVars, engineVars>>

\* manager.AddPostHook(chain.AsPostHook(), p) / manager.AddPostHook(hook, p)
ManagerAddPostHook ==
  /\ nextId <= MaxUnits
  /\ \E kind \in ComposePostKinds, priority \in ComposePriorityArgs :
       LET p == PriorityOf(priority)
           h == [id |-> nextId, kind |-> kind, prio |-> p]
       IN postHooks' = StoreBucket(postHooks, p, LookupBucket(postHooks, p), h)
  /\ nextId' = nextId + 1
  /\ UNCHANGED <<preHooks, registryVars, chainVars, engineVars>>

\* hooks := manager.PreHooks(); the hooks are called one after the other on ctx
RunPreHooks ==
  /\ \E keys \in KeyOrders(preHooks) :
       LET hooks == CollectHooks(preHooks, keys)
           ctx0 == ComposeContext(<<>>, TRUE)
           r == RunPreHooksFrom(hooks, 1, ctx0, <<>>)
       IN last' = [op |-> "ManagerPreHooks", hooks |-> hooks, ctx0 |-> ctx0,
                   ctx |-> r.ctx, out |-> r.out, err |-> r.err, calls |-> r.calls]
  /\ UNCHANGED <<chainPre, chainPost, chains>>
  /\ UNCHANGED <<preHooks, postHooks, mu, pc, args, hooksLocal, ret, nextId,
                 regLog, regThreads, engineVars>>

\* hooks := manager.PostHooks(); the hooks are called one after the other,
\* each on the output of the one before
RunPostHooks ==
  /\ \E keys \in KeyOrders(postHooks), original \in Originals :
       LET hooks == CollectHooks(postHooks, keys)
           ctx0 == ComposeContext(original, FALSE)
           r == RunPostHooksFrom(hooks, 1, ctx0, ctx0.Output, <<>>)
       IN last' = [op |-> "ManagerPostHooks", hooks |-> hooks, ctx0 |-> ctx0,
                   ctx |-> r.ctx, out |-> r.out, err |-> r.err, calls |-> r.calls]
  /\ UNCHANGED <<chainPre, chainPost, chains>>
  /\ UNCHANGED <<preHooks, postHooks, mu, pc, args, hooksLocal, ret, nextId,
                 regLog, regThreads, engineVars>>

NextCompose ==
  \/ ComposeNewChain
  \/ ManagerAddPreHook
  \/ ManagerAddPostHook
  \/ RunPreHooks
  \/ RunPostHooks

SpecCompose == Init /\ [][NextCompose]_vars

(***************************************************************************)
(* HookChains built with options and extended through the fluent methods   *)
(***************************************************************************)
\* h(c) for an option h of NewHookChain
ApplyOption(c, opt) ==
  IF opt.with = "pre" THEN WithPreHooksChain(c, opt.hooks)
  ELSE WithPostHooksChain(c, opt.hooks)

\* for _, h := range hooks { h(c) }
RECURSIVE ApplyOptions(_, _, _)
ApplyOptions(c, opts, i) ==
  IF i > Len(opts) THEN c ELSE ApplyOptions(ApplyOption(c, opts[i]), opts, i + 1)

\* func NewHookChain(hooks ...HookChainOption) *HookChain
NewHookChain(heap, opts) ==
  [heap |-> Append(heap, ApplyOptions(EmptyChain, opts, 1)), ret |-> Len(heap) + 1]

\* the options of one NewHookChain call: which list each seeds, and with
\* how many hooks
OptionShapes ==
  UNION {[1..n -> [with : {"pre", "post"}, n : 1..MaxOptionHooks]] : n \in 0..MaxOptions}

\* the number of hooks the first i options of a shape hold
RECURSIVE HooksIn(_, _)
HooksIn(shape, i) == IF i = 0 THEN 0 ELSE HooksIn(shape, i - 1) + shape[i].n

\* the options of a shape, their hooks being new values made in the order of
\* the arguments, the first of them with identity `first`
OptionsOf(shape, first) ==
  [i \in 1..Len(shape) |->
     [with |-> shape[i].with,
      hooks |-> [k \in 1..shape[i].n |->
                   [id |-> first + HooksIn(shape, i - 1) + k - 1,
                    kind |-> IF shape[i].with = "pre" THEN "ok" ELSE "prepend"]]]]

\* chain := NewHookChain(WithPreHooksChain(...), WithPostHooksChain(...), ...)
FluentNewHookChain ==
  /\ Len(chains) < MaxFluentChains
  /\ \E shape \in OptionShapes :
       LET opts == OptionsOf(shape, nextId)
           r == NewHookChain(chains, opts)
       IN /\ nextId + HooksIn(shape, Len(shape)) <= MaxFluentHooks + 1
          /\ chains' = r.heap
          /\ nextId' = nextId + HooksIn(shape, Len(shape))
          /\ last' = [op |-> "NewHookChain", self |-> 0, hook |-> NoArgs.hook,
                      opts |-> opts, ret |-> r.ret, heap0 |-> chains]
  /\ UNCHANGED <<chainPre, chainPost>>
  /\ UNCHANGED <<preHooks, postHooks, registryVars, engineVars>>

\* returned := chain.AddPreHook(hook)
FluentAddPreHook ==
  /\ nextId <= MaxFluentHooks
  /\ \E c \in 1..Len(chains), kind \in PreHookKinds :
       LET hook == [id |-> nextId, kind |-> kind]
           r == HookChain_AddPreHook(chains, c, hook)
       IN /\ chains' = r.heap
          /\ last' = [op |-> "AddPreHook", self |-> c, hook |-> hook,
                      opts |-> <<>>, ret |-> r.ret, heap0 |-> chains]
  /\ nextId' = nextId + 1
  /\ UNCHANGED <<chainPre, chainPost>>
  /\ UNCHANGED <<preHooks, postHooks, registryVars, engineVars>>

\* returned := chain.AddPostHook(hook)
FluentAddPostHook ==
  /\ nextId <= MaxFluentHooks
  /\ \E c \in 1..Len(chains), kind \in RenderPostHookKinds :
       LET hook == [id |-> nextId, kind |-> kind]
           r == HookChain_AddPostHook(chains, c, hook)
       IN /\ chains' = r.heap
          /\ last' = [op |-> "AddPostHook", self |-> c, hook |-> hook,
                      opts |-> <<>>, ret |-> r.ret, heap0 |-> chains]
  /\ nextId' = nextId + 1
  /\ UNCHANGED <<chainPre, chainPost>>
  /\ UNCHANGED <<preHooks, postHooks, registryVars, engineVars>>

NextFluent ==
  \/ FluentNewHookChain
  \/ FluentAddPreHook
  \/ FluentAddPostHook

SpecFluent == Init /\ [][NextFluent]_vars

(***************************************************************************)
(* The closures of a HookChain, obtained and registered before the chain   *)
(* is complete                                                             *)
(***************************************************************************)
\* an AsPreHook with a value receiver: the closure holds the chain as it is
\* when the closure is made
HookChain_AsPreHookOfCopy(heap, c) == [val |-> heap[c]]

\* func (c *HookChain) AsPreHook() PreHook:
\* return func(ctx *HookContext) error { return c.ExecutePreHooks(ctx) }
\* the closure holds the pointer c
HookChain_AsPreHook(heap, c) == [ptr |-> c]

\* func (c *HookChain) AsPostHook() PostHook:
\* return func(ctx *HookContext) (string, error) { return c.ExecutePostHooks(ctx) }
HookChain_AsPostHook(heap, c) == [ptr |-> c]

\* the chain the variable c of a closure stands for when the closure runs
Captured(heap, env) == IF "ptr" \in DOMAIN env THEN heap[env.ptr] ELSE env.val

\* err := closure(ctx) for a closure made by AsPreHook
InvokePreClosure(heap, env, ctx) ==
  ExecutePreHooksFrom(Captured(heap, env).preHooks, 1, ctx, NoErr, <<>>)

\* out, err := closure(ctx) for a closure made by AsPostHook
InvokePostClosure(heap, env, ctx) ==
  ExecutePostHooksFrom(Captured(heap, env).postHooks, 1, ctx, ctx.Output, <<>>)

\* chain := NewHookChain()
BoundNewHookChain ==
  /\ chains = <<>>
  /\ chains' = NewHookChain(chains, <<>>).heap
  /\ UNCHANGED <<chainPre, chainPost, last>>
  /\ UNCHANGED <<preHooks, postHooks, nextId, registryVars, engineVars>>

\* chain.AddPreHook(hook) / chain.AddPostHook(hook)
BoundAddHook ==
  /\ chains # <<>>
  /\ nextId <= MaxBoundHooks
  /\ \/ \E kind \in PreHookKinds :
          chains' = HookChain_AddPreHook(chains, 1, [id |-> nextId, kind |-> kind]).heap
     \/ \E kind \in RenderPostHookKinds :
          chains' = HookChain_AddPostHook(chains, 1, [id |-> nextId, kind |-> kind]).heap
  /\ nextId' = nextId + 1
  /\ UNCHANGED <<chainPre, chainPost, last>>
  /\ UNCHANGED <<preHooks, postHooks, registryVars, engineVars>>

\* manager.AddPreHook(chain.AsPreHook()) / manager.AddPostHook(chain.AsPostHook())
BoundRegisterClosure ==
  /\ chains # <<>>
  /\ nextId <= MaxBoundHooks
  /\ LET p == PriorityOf(<<>>)
     IN \/ /\ preHooks' = StoreBucket(preHooks, p, LookupBucket(preHooks, p),
                                      [id |-> nextId, kind |-> "closure", prio |-> p,
                                       env |-> HookChain_AsPreHook(chains, 1)])
           /\ UNCHANGED postHooks
        \/ /\ postHooks' = StoreBucket(postHooks, p, LookupBucket(postHooks, p),
                                       [id |-> nextId, kind |-> "closure", prio |-> p,
                                        env |-> HookChain_AsPostHook(chains, 1)])
           /\ UNCHANGED preHooks
  /\ nextId' = nextId + 1
  /\ UNCHANGED <<registryVars, chainVars, engineVars>>

\* for _, hook := range manager.PreHooks() { err := hook(ctx) }, one hook of it;
\* the same with manager.PostHooks()
BoundInvokeClosure ==
  /\ \/ \E keys \in KeyOrders(preHooks) :
          \E f \in Range(CollectHooks(preHooks, keys)) :
            LET ctx0 == NewContext(<<>>, TRUE)
                r == InvokePreClosure(chains, f.env, ctx0)
            IN last' = [op |-> "InvokePreClosure", hooks |-> <<f>>, ctx0 |-> ctx0,
                        ctx |-> r.ctx, out |-> <<>>, err |-> r.err, calls |-> r.calls]
     \/ \E keys \in KeyOrders(postHooks), original \in Originals :
          \E f \in Range(CollectHooks(postHooks, keys)) :
            LET ctx0 == NewContext(original, FALSE)
                r == InvokePostClosure(chains, f.env, ctx0)
            IN last' = [op |-> "InvokePostClosure", hooks |-> <<f>>, ctx0 |-> ctx0,
                        ctx |-> r.ctx, out |-> r.out, err |-> r.err, calls |-> r.calls]
  /\ UNCHANGED <<chainPre, chainPost, chains>>
  /\ UNCHANGED <<preHooks, postHooks, nextId, registryVars, engineVars>>

NextBound ==
  \/ BoundNewHookChain
  \/ BoundAddHook
  \/ BoundRegisterClosure
  \/ BoundInvokeClosure

SpecBound == Init /\ [][NextBound]_vars

(***************************************************************************)
(* Chains that hold closures of chains.  An execution is followed call by  *)
(* call: stack holds a frame for every ExecutePreHooks / ExecutePostHooks  *)
(* call that has not returned, with the closure variable c and the         *)
(* position of its range loop.                                             *)
(***************************************************************************)
\* the frames a goroutine stack has room for; the run time ends the program
\* with "fatal error: stack overflow" when a call needs more
StackLimit == MaxNestChains + 2

\* a loop that returns what the closure of a nested chain returned
StepFrameReturning(heap, ex) ==
  LET top == ex.stack[Len(ex.stack)]
      hooks == Captured(heap, top.env)[ex.list]
      below == SubSeq(ex.stack, 1, Len(ex.stack) - 1)
  IN IF top.i > Len(hooks)
     THEN [ex EXCEPT !.stack = <<>>, !.state = "done"]
     ELSE LET h == hooks[top.i]
              next == Append(below, [top EXCEPT !.i = top.i + 1])
          IN IF h.kind = "closure"
             THEN IF Len(ex.stack) = StackLimit
                  THEN [ex EXCEPT !.state = "overflow"]
                  ELSE [ex EXCEPT !.stack = Append(next, [env |-> h.env, i |-> 1])]
             ELSE IF h.kind = "fail"
             THEN [ex EXCEPT !.stack = <<>>, !.state = "failed",
                             !.calls = Append(ex.calls, h.id)]
             ELSE [ex EXCEPT !.stack = next, !.calls = Append(ex.calls, h.id)]

\* one step of the innermost call:
\*   for _, hook := range c.preHooks { if err := hook(ctx); err != nil { return err } }
\*   return nil
\* a hook that is a closure of a chain calls ExecutePreHooks of that chain; an
\* error is returned through every call on the stack
StepFrame(heap, ex) ==
  LET top == ex.stack[Len(ex.stack)]
      hooks == Captured(heap, top.env)[ex.list]
      below == SubSeq(ex.stack, 1, Len(ex.stack) - 1)
  IN IF top.i > Len(hooks)
     THEN [ex EXCEPT !.stack = below,
                     !.state = IF below = <<>> THEN "done" ELSE "running"]
     ELSE LET h == hooks[top.i]
              next == Append(below, [top EXCEPT !.i = top.i + 1])
          IN IF h.kind = "closure"
             THEN IF Len(ex.stack) = StackLimit
                  THEN [ex EXCEPT !.state = "overflow"]
                  ELSE [ex EXCEPT !.stack = Append(next, [env |-> h.env, i |-> 1])]
             ELSE IF h.kind = "fail"
             THEN [ex EXCEPT !.stack = <<>>, !.state = "failed",
                             !.calls = Append(ex.calls, h.id)]
             ELSE [ex EXCEPT !.stack = next, !.calls = Append(ex.calls, h.id)]

\* no chain has a hook in the list; ExecutePreHooks reads only preHooks
\* and ExecutePostHooks only postHooks, so a behaviour nests the chains
\* through the lists of one stage
Unused(list) == \A c \in 1..Len(chains) : chains[c][list] = <<>>

\* chain := NewHookChain()
NestNewHookChain ==
  /\ last = NoCall
  /\ Len(chains) < MaxNestChains
  /\ chains' = NewHookChain(chains, <<>>).heap
  /\ UNCHANGED <<chainPre, chainPost, last>>
  /\ UNCHANGED <<preHooks, postHooks, nextId, registryVars, engineVars>>

\* chain.AddPreHook(hook) / chain.AddPostHook(hook)
NestAddHook ==
  /\ last = NoCall
  /\ nextId <= MaxNestHooks
  /\ \E c \in 1..Len(chains), kind \in PreHookKinds :
       LET hook == [id |-> nextId, kind |-> kind]
       IN \/ /\ Unused("postHooks")
             /\ chains' = HookChain_AddPreHook(chains, c, hook).heap
          \/ /\ Unused("preHooks")
             /\ chains' = HookChain_AddPostHook(chains, c, hook).heap
  /\ nextId' = nextId + 1
  /\ UNCHANGED <<chainPre, chainPost, last>>
  /\ UNCHANGED <<preHooks, postHooks, registryVars, engineVars>>

\* chain.AddPreHook(inner.AsPreHook()) / chain.AddPostHook(inner.AsPostHook())
NestAddClosure ==
  /\ last = NoCall
  /\ nextId <= MaxNestHooks
  /\ \E c, inner \in 1..Len(chains) :
       \/ /\ Unused("postHooks")
          /\ chains' = HookChain_AddPreHook(chains, c,
                          [id |-> nextId, kind |-> "closure",
                           env |-> HookChain_AsPreHook(chains, inner)]).heap
       \/ /\ Unused("preHooks")
          /\ chains' = HookChain_AddPostHook(chains, c,
                          [id |-> nextId, kind |-> "closure",
                           env |-> HookChain_AsPostHook(chains, inner)]).heap
  /\ nextId' = nextId + 1
  /\ UNCHANGED <<chainPre, chainPost, last>>
  /\ UNCHANGED <<preHooks, postHooks, registryVars, engineVars>>

\* chain.ExecutePreHooks(ctx) / chain.ExecutePostHooks(ctx) is called
NestExecute ==
  /\ last = NoCall
  /\ \E c \in 1..Len(chains), list \in {"preHooks", "postHooks"} :
       last' = [op |-> "ExecuteNested", list |-> list, top |-> c,
                stack |-> <<[env |-> [ptr |-> c], i |-> 1]>>,
                calls |-> <<>>, state |-> "running"]
  /\ UNCHANGED <<chainPre, chainPost, chains>>
  /\ UNCHANGED <<preHooks, postHooks, nextId, registryVars, engineVars>>

\* the innermost call makes its next step
NestStep ==
  /\ last.op = "ExecuteNested"
  /\ last.state = "running"
  /\ last' = StepFrame(chains, last)
  /\ UNCHANGED <<chainPre, chainPost, chains>>
  /\ UNCHANGED <<preHooks, postHooks, nextId, registryVars, engineVars>>

NextNest ==
  \/ NestNewHookChain
  \/ NestAddHook
  \/ NestAddClosure
  \/ NestExecute
  \/ NestStep

SpecNest == Init /\ [][NextNest]_vars

(***************************************************************************)
(* The two stages of a HookChain run on one HookContext                    *)
(***************************************************************************)
\* bodies of the pre-hooks of the chain: return nil, return an error, set a
\* default in ctx.Data, write in ctx.Metadata
StagePreKinds == {"ok", "fail", "defaults", "metadata"}

\* ctx.Data before the pre-hooks run
StageData == {MapData({"initial"}), NilData}

\* one run of a new chain:
\* chain := NewHookChain(WithPreHooksChain(pre...), WithPostHooksChain(post...))
\* err := chain.ExecutePreHooks(ctx)
\* ctx.IsPreHook = false; ctx.Output = original
\* result, err := chain.ExecutePostHooks(ctx)
ExecuteStages ==
  /\ chains = <<>>
  /\ \E pre \in OptionHooks(StagePreKinds), post \in OptionHooks(RenderPostHookKinds),
        data \in StageData, original \in Originals :
       LET made == NewHookChain(<<>>, <<[with |-> "pre", hooks |-> pre],
                                       [with |-> "post", hooks |-> post]>>)
           chain == made.heap[made.ret]
           ctx0 == [NewContext(<<>>, TRUE) EXCEPT !.Data = data]
           r1 == ExecutePreHooksFrom(chain.preHooks, 1, ctx0, NoErr, <<>>)
           ctx1 == [r1.ctx EXCEPT !.IsPreHook = FALSE, !.Output = original]
           r2 == ExecutePostHooksFrom(chain.postHooks, 1, ctx1, ctx1.Output, <<>>)
       IN /\ chains' = made.heap
          /\ last' = IF r1.err # NoErr
                     THEN [op |-> "ExecuteStages", hooks |-> chain, ctx0 |-> ctx0,
                           ctx |-> r1.ctx, out |-> <<>>, err |-> r1.err,
                           calls |-> r1.calls, post |-> <<>>]
                     ELSE [op |-> "ExecuteStages", hooks |-> chain, ctx0 |-> ctx0,
                           ctx |-> r2.ctx, out |-> r2.out, err |-> r2.err,
                           calls |-> r1.calls, post |-> r2.calls]
  /\ UNCHANGED <<chainPre, chainPost>>
  /\ UNCHANGED <<preHooks, postHooks, nextId, registryVars, engineVars>>

SpecStages == Init /\ [][ExecuteStages]_vars

(***************************************************************************)
(* Post-hooks that return what they like                                   *)
(***************************************************************************)
\* bodies of the post-hooks of the chain:
\*   prepend : return marker + ctx.Output, nil
\*   blank   : return "", nil
\*   same    : return ctx.Output, nil
\*   assign  : ctx.Output = "scratch"; return marker + (the old) ctx.Output, nil
\*   fail    : return "", err
ReturnKinds == {"prepend", "blank", "same", "assign", "fail"}

\* the lists of at most MaxChain post-hooks with these bodies
ReturnHooks ==
  UNION {{[i \in 1..n |-> [id |-> i, kind |-> k[i]]] : k \in [1..n -> ReturnKinds]} :
           n \in 0..MaxChain}

\* one run of a new chain:
\* chain := NewHookChain(WithPostHooksChain(post...))
\* result, err := chain.ExecutePostHooks(ctx)
ExecuteReturns ==
  /\ chains = <<>>
  /\ \E post \in ReturnHooks, original \in Originals :
       LET made == NewHookChain(<<>>, <<[with |-> "post", hooks |-> post]>>)
           chain == made.heap[made.ret]
           ctx0 == NewContext(original, FALSE)
           r == ExecutePostHooksFrom(chain.postHooks, 1, ctx0, ctx0.Output, <<>>)
       IN /\ chains' = made.heap
          /\ last' = [op |-> "ExecuteReturns", hooks |-> chain.postHooks,
                      ctx0 |-> ctx0, ctx |-> r.ctx, out |-> r.out, err |-> r.err,
                      calls |-> r.calls]
  /\ UNCHANGED <<chainPre, chainPost>>
  /\ UNCHANGED <<preHooks, postHooks, nextId, registryVars, engineVars>>

SpecReturns == Init /\ [][ExecuteReturns]_vars

(***************************************************************************)
(* Engine: registration of hooks and the steps of one render, as one       *)
(* caller issues them.  The writers of a render are not looked at before   *)
(* its last step, so they are drawn there.                                 *)
(***************************************************************************)
\* renderer.RegisterPreHook(hook, priority...)
RegisterPreHook ==
  /\ Returned(render)
  /\ nextId <= MaxHooks
  /\ \E kind \in PreHookKinds, priority \in RenderPriorityArgs :
       LET p == PriorityOf(priority)
           h == [id |-> nextId, kind |-> kind, prio |-> p]
       IN preHooks' = StoreBucket(preHooks, p, LookupBucket(preHooks, p), h)
  /\ nextId' = nextId + 1
  /\ UNCHANGED <<postHooks, registryVars, chainVars, engineVars>>

\* renderer.RegisterPostHook(hook, priority...)
RegisterPostHook ==
  /\ Returned(render)
  /\ nextId <= MaxHooks
  /\ \E kind \in RenderPostHookKinds, priority \in RenderPriorityArgs :
       LET p == PriorityOf(priority)
           h == [id |-> nextId, kind |-> kind, prio |-> p]
       IN postHooks' = StoreBucket(postHooks, p, LookupBucket(postHooks, p), h)
  /\ nextId' = nextId + 1
  /\ UNCHANGED <<preHooks, registryVars, chainVars, engineVars>>

\* renderer.RenderTemplate(name, data, out...) / RenderString(content, data, out...)
RenderCall ==
  /\ Returned(render)
  /\ \E req \in Requests, keys \in KeyOrders(preHooks) :
       render' = StartRender(req, CollectHooks(preHooks, keys))
  /\ UNCHANGED <<preHooks, postHooks, nextId, registryVars, chainVars, templates, other, engineShared>>

RenderPreHook ==
  /\ render.state = "PreHooksRunning"
  /\ render.i <= Len(render.seq)
  /\ render' = StepPreHook(render)
  /\ UNCHANGED <<preHooks, postHooks, nextId, registryVars, chainVars, templates, other, engineShared>>

RenderEngine ==
  /\ render.state = "PreHooksRunning"
  /\ render.i > Len(render.seq)
  /\ \E keys \in KeyOrders(postHooks) :
       LET r == EngineRender(render.req.op, render.req.name, EngineData(render),
                             templates)
       IN /\ render' = StepEngine(render, r, CollectHooks(postHooks, keys))
          /\ templates' = r.cache
  /\ UNCHANGED <<preHooks, postHooks, nextId, registryVars, chainVars, other, engineShared>>

RenderPostHook ==
  /\ render.state = "PostHooksRunning"
  /\ render.i <= Len(render.seq)
  /\ render' = StepPostHook(render)
  /\ UNCHANGED <<preHooks, postHooks, nextId, registryVars, chainVars, templates, other, engineShared>>

RenderReturn ==
  /\ render.state = "PostHooksRunning"
  /\ render.i > Len(render.seq)
  /\ \E writers \in WriterLists : render' = StepFinish(render, writers)
  /\ UNCHANGED <<preHooks, postHooks, nextId, registryVars, chainVars, templates, other, engineShared>>

\* renderer.RegisterPreHook(hooks.SetDefaultsHook(defaults), priority...)
RegisterSetDefaultsHook ==
  /\ Returned(render)
  /\ nextId <= MaxHooks
  /\ \E priority \in RenderPriorityArgs :
       LET p == PriorityOf(priority)
           h == [id |-> nextId, kind |-> "defaults", prio |-> p]
       IN preHooks' = StoreBucket(preHooks, p, LookupBucket(preHooks, p), h)
  /\ nextId' = nextId + 1
  /\ UNCHANGED <<postHooks, registryVars, chainVars, engineVars>>

NextRender ==
  \/ RegisterPreHook
  \/ RegisterPostHook
  \/ RenderCall
  \/ RenderPreHook
  \/ RenderEngine
  \/ RenderPostHook
  \/ RenderReturn

SpecRender == Init /\ [][NextRender]_vars

\* AddPreHook(hook, priority...) called by another goroutine, at any point of
\* a render or between two renders
ConcurrentAddPreHook ==
  /\ nextId <= MaxLiveHooks
  /\ \E kind \in PreHookKinds, priority \in RenderPriorityArgs :
       LET p == PriorityOf(priority)
           h == [id |-> nextId, kind |-> kind, prio |-> p]
       IN preHooks' = StoreBucket(preHooks, p, LookupBucket(preHooks, p), h)
  /\ nextId' = nextId + 1
  /\ UNCHANGED <<postHooks, registryVars, chainVars, engineVars>>

\* AddPostHook(hook, priority...) called by another goroutine
ConcurrentAddPostHook ==
  /\ nextId <= MaxLiveHooks
  /\ \E kind \in RenderPostHookKinds, priority \in RenderPriorityArgs :
       LET p == PriorityOf(priority)
           h == [id |-> nextId, kind |-> kind, prio |-> p]
       IN postHooks' = StoreBucket(postHooks, p, LookupBucket(postHooks, p), h)
  /\ nextId' = nextId + 1
  /\ UNCHANGED <<preHooks, registryVars, chainVars, engineVars>>

\* renders of one goroutine while another one registers hooks
NextLive ==
  \/ ConcurrentAddPreHook
  \/ ConcurrentAddPostHook
  \/ RenderCall
  \/ RenderPreHook
  \/ RenderEngine
  \/ RenderPostHook
  \/ RenderReturn

SpecLive == Init /\ [][NextLive]_vars

\* renderer.RegisterPreHook(hook, priority...) before the goroutines start
SetupPreHook ==
  /\ render = NoRender /\ other = NoRender
  /\ nextId <= MaxSharedHooks
  /\ \E kind \in PreHookKinds, priority \in RenderPriorityArgs :
       LET p == PriorityOf(priority)
           h == [id |-> nextId, kind |-> kind, prio |-> p]
       IN preHooks' = StoreBucket(preHooks, p, LookupBucket(preHooks, p), h)
  /\ nextId' = nextId + 1
  /\ UNCHANGED <<postHooks, registryVars, chainVars, engineVars>>

\* renderer.RegisterPostHook(hook, priority...) before the goroutines start
SetupPostHook ==
  /\ render = NoRender /\ other = NoRender
  /\ nextId <= MaxSharedHooks
  /\ \E kind \in RenderPostHookKinds, priority \in RenderPriorityArgs :
       LET p == PriorityOf(priority)
           h == [id |-> nextId, kind |-> kind, prio |-> p]
       IN postHooks' = StoreBucket(postHooks, p, LookupBucket(postHooks, p), h)
  /\ nextId' = nextId + 1
  /\ UNCHANGED <<preHooks, registryVars, chainVars, engineVars>>

\* the steps of the render calls of the second goroutine
OtherRenderCall ==
  /\ Returned(other)
  /\ \E req \in Requests, keys \in KeyOrders(preHooks) :
       other' = StartRender(req, CollectHooks(preHooks, keys))
  /\ UNCHANGED <<preHooks, postHooks, nextId, registryVars, chainVars, templates, render, engineShared>>

OtherRenderPreHook ==
  /\ other.state = "PreHooksRunning"
  /\ other.i <= Len(other.seq)
  /\ other' = StepPreHook(other)
  /\ UNCHANGED <<preHooks, postHooks, nextId, registryVars, chainVars, templates, render, engineShared>>

OtherRenderEngine ==
  /\ other.state = "PreHooksRunning"
  /\ other.i > Len(other.seq)
  /\ \E keys \in KeyOrders(postHooks) :
       LET r == EngineRender(other.req.op, other.req.name, EngineData(other),
                             templates)
       IN /\ other' = StepEngine(other, r, CollectHooks(postHooks, keys))
          /\ templates' = r.cache
  /\ UNCHANGED <<preHooks, postHooks, nextId, registryVars, chainVars, render, engineShared>>

OtherRenderPostHook ==
  /\ other.state = "PostHooksRunning"
  /\ other.i <= Len(other.seq)
  /\ other' = StepPostHook(other)
  /\ UNCHANGED <<preHooks, postHooks, nextId, registryVars, chainVars, templates, render, engineShared>>

OtherRenderReturn ==
  /\ other.state = "PostHooksRunning"
  /\ other.i > Len(other.seq)
  /\ \E writers \in WriterLists : other' = StepFinish(other, writers)
  /\ UNCHANGED <<preHooks, postHooks, nextId, registryVars, chainVars, templates, render, engineShared>>

\* two goroutines render with one renderer
NextTwo ==
  \/ SetupPreHook
  \/ SetupPostHook
  \/ RenderCall
  \/ RenderPreHook
  \/ RenderEngine
  \/ RenderPostHook
  \/ RenderReturn
  \/ OtherRenderCall
  \/ OtherRenderPreHook
  \/ OtherRenderEngine
  \/ OtherRenderPostHook
  \/ OtherRenderReturn

SpecTwo == Init /\ [][NextTwo]_vars

\* renders on a renderer whose pre-hooks set defaults in the data
\* renderer.RegisterPreHook(hooks.AddMetadataHook(), priority...)
RegisterAddMetadataHook ==
  /\ Returned(render)
  /\ nextId <= MaxHooks
  /\ \E priority \in RenderPriorityArgs :
       LET p == PriorityOf(priority)
           h == [id |-> nextId, kind |-> "metadata", prio |-> p]
       IN preHooks' = StoreBucket(preHooks, p, LookupBucket(preHooks, p), h)
  /\ nextId' = nextId + 1
  /\ UNCHANGED <<postHooks, registryVars, chainVars, engineVars>>

NextData ==
  \/ RegisterSetDefaultsHook
  \/ RegisterPostHook
  \/ RenderCall
  \/ RenderPreHook
  \/ RenderEngine
  \/ RenderPostHook
  \/ RenderReturn

SpecData == Init /\ [][NextData]_vars

\* renders on a renderer whose pre-hooks write in the metadata
NextMeta ==
  \/ RegisterAddMetadataHook
  \/ RegisterPostHook
  \/ RenderCall
  \/ RenderPreHook
  \/ RenderEngine
  \/ RenderPostHook
  \/ RenderReturn

SpecMeta == Init /\ [][NextMeta]_vars

(***************************************************************************)
(* One HookChain used by several threads.  HookChain has no lock:          *)
(* c.preHooks = append(c.preHooks, hook) reads the slice and then writes   *)
(* it, and range c.preHooks reads it.                                      *)
(***************************************************************************)
\* the list a thread at this position is about to read or write
ListAt(pc_) ==
  IF pc_ \in {"cc_pre_read", "cc_pre_write", "cc_pre_range"} THEN "preHooks"
  ELSE IF pc_ \in {"cc_post_read", "cc_post_write", "cc_post_range"} THEN "postHooks"
  ELSE "none"

\* the thread's next step writes the list
WritesAt(pc_) == pc_ \in {"cc_pre_write", "cc_post_write"}

\* a thread calls AddPreHook(hook), AddPostHook(hook), ExecutePreHooks(ctx)
\* or ExecutePostHooks(ctx) of the chain
ChainConcCall(t) ==
  /\ pc[t] = "idle"
  /\ \/ /\ nextId <= MaxConcRegs
        /\ args' = [args EXCEPT ![t] = [hook |-> nextId, priority |-> <<>>]]
        /\ nextId' = nextId + 1
        /\ \E to \in {"cc_pre_read", "cc_post_read"} : pc' = [pc EXCEPT ![t] = to]
     \/ /\ \E to \in {"cc_pre_range", "cc_post_range"} : pc' = [pc EXCEPT ![t] = to]
        /\ UNCHANGED <<args, nextId>>
  /\ UNCHANGED <<preHooks, postHooks, mu, hooksLocal, ret, regLog, regThreads>>
  /\ UNCHANGED <<chainVars, engineVars>>

\* append(c.preHooks, hook): the slice is read
ChainConcRead(t) ==
  /\ pc[t] \in {"cc_pre_read", "cc_post_read"}
  /\ hooksLocal' = [hooksLocal EXCEPT ![t] = TheChain[1][ListAt(pc[t])]]
  /\ pc' = [pc EXCEPT ![t] = IF pc[t] = "cc_pre_read" THEN "cc_pre_write"
                                                      ELSE "cc_post_write"]
  /\ UNCHANGED <<preHooks, postHooks, mu, args, ret, nextId, regLog, regThreads>>
  /\ UNCHANGED <<chainVars, engineVars>>

\* c.preHooks = append(...): the slice read, with the hook behind it, is
\* stored; return c
ChainConcWrite(t) ==
  /\ WritesAt(pc[t])
  /\ LET hook == [id |-> args[t].hook, kind |-> "ok"]
         seen == [TheChain EXCEPT ![1][ListAt(pc[t])] = hooksLocal[t]]
     IN IF pc[t] = "cc_pre_write"
        THEN /\ chainPre' = HookChain_AddPreHook(seen, 1, hook).heap[1].preHooks
             /\ UNCHANGED chainPost
        ELSE /\ chainPost' = HookChain_AddPostHook(seen, 1, hook).heap[1].postHooks
             /\ UNCHANGED chainPre
  /\ regLog' = Append(regLog, [list |-> ListAt(pc[t]), id |-> args[t].hook])
  /\ pc' = [pc EXCEPT ![t] = "idle"]
  /\ hooksLocal' = [hooksLocal EXCEPT ![t] = <<>>]
  /\ UNCHANGED <<preHooks, postHooks, mu, args, ret, nextId, regThreads>>
  /\ UNCHANGED <<last, chains, engineVars>>

\* for _, hook := range c.preHooks { ... }: the slice is read once and the
\* hooks it held then are invoked on the context of the call
ChainConcRange(t) ==
  /\ pc[t] \in {"cc_pre_range", "cc_post_range"}
  /\ pc' = [pc EXCEPT ![t] = "idle"]
  /\ UNCHANGED <<preHooks, postHooks, mu, args, hooksLocal, ret, nextId, regLog, regThreads>>
  /\ UNCHANGED <<chainVars, engineVars>>

NextChainConc ==
  \E t \in Threads :
    \/ ChainConcCall(t)
    \/ ChainConcRead(t)
    \/ ChainConcWrite(t)
    \/ ChainConcRange(t)

SpecChainConc == Init /\ [][NextChainConc]_vars

(***************************************************************************)
(* RenderTemplate calls on an engine whose template files come and go      *)
(***************************************************************************)
\* the names rendered, and the files that are written to the base directory
\* only after the engine was made
LoadNames == {<<"simple">>, <<"late">>, <<"later">>}
LateFiles == {<<"late", ".tpl">>, <<"later", ".tpl">>}
LoadData == {NilData, MapData({"name"})}

\* the paths whose load has failed in the calls made so far
FailedLoads == IF render.state = "LoadReturned" THEN render.failed ELSE {}

\* os.WriteFile(filepath.Join(dir, name + ".tpl"), content, fs.ModePerm)
LoadWriteFile ==
  /\ \E path \in LateFiles \ disk : disk' = disk \cup {path}
  /\ UNCHANGED <<templates, render, other>>
  /\ UNCHANGED <<templateSet, sets, globalData, filters, engineMu, goroutines, hist>>
  /\ UNCHANGED <<preHooks, postHooks, nextId, registryVars, chainVars>>

\* renderer.RenderTemplate(name, data, out...)
LoadRenderTemplate ==
  /\ \E name \in LoadNames, data \in LoadData, out \in {<<>>, <<"ok">>} :
       LET r == RenderTemplate(name, data, out, templates)
           path == TemplatePath(name)
       IN /\ templates' = r.cache
          /\ render' = [state |-> "LoadReturned",
                        req |-> [op |-> "RenderTemplate", name |-> name, data |-> data],
                        path |-> path, before |-> templates, onDisk |-> path \in disk,
                        refused |-> FailedLoads,
                        failed |-> FailedLoads \cup
                                   (IF r.err.msg = "failed to load template"
                                    THEN {path} ELSE {}),
                        out |-> r.out, err |-> r.err, written |-> r.written]
  /\ UNCHANGED <<other, engineShared>>
  /\ UNCHANGED <<preHooks, postHooks, nextId, registryVars, chainVars>>

NextLoad ==
  \/ LoadWriteFile
  \/ LoadRenderTemplate

SpecLoad == Init /\ [][NextLoad]_vars

(***************************************************************************)
(* Engine methods as goroutines run them: GlobalContext, Load,             *)
(* RenderString, RenderTemplate (getTemplate), RegisterFilter.  A step is  *)
(* one access to the state the goroutines share, or one lock operation.    *)
(***************************************************************************)
\* what the hook registry, the chain and the hook stages of a render hold
hookSideVars ==
  <<preHooks, postHooks, nextId, registryVars, chainVars, render, other, disk>>

\* the data GlobalContext is called with
GlobalArgs == {MapData({DefaultKey}), MapData({"name"}), Unconvertible}

\* the templates rendered and the names filters are registered under
EngineFiles == {<<"simple">>, <<"missing">>}
EngineContents == {ValidContent}
FilterNames == {"test", "trim"}

\* a goroutine may start a call: it runs none, and the process is alive
Callable(t, cap) ==
  /\ ~hist.fatal
  /\ goroutines[t].pc \in {"idle", "returned"}
  /\ hist.calls < cap

\* the goroutine is inside a call, at this position
At(t, pc_) == ~hist.fatal /\ goroutines[t].pc = pc_

\* the goroutine's call returns
Return(g, out, err) == [g EXCEPT !.pc = "returned", !.out = out, !.err = err]

\* r.GlobalContext(data): globalContext, err := convertToContext(data)
CallGlobalContext(t, cap) ==
  /\ Callable(t, cap)
  /\ \E data \in GlobalArgs :
       LET c == ConvertToContext(data)
           g == [IdleGoroutine EXCEPT !.op = "GlobalContext", !.data = data]
       IN goroutines' = [goroutines EXCEPT ![t] =
            IF c.err # NoError
            THEN Return(g, <<>>, Errorf("failed to convert global data to context",
                                        <<>>, NoErr))
            ELSE [g EXCEPT !.pc = "gc_copy", !.view = c.view]]
  /\ hist' = [hist EXCEPT !.calls = @ + 1]
  /\ UNCHANGED <<templateSet, sets, globalData, filters, engineMu, templates, hookSideVars>>

\* maps.Copy(r.globalData, globalContext)
GlobalContextCopy(t) ==
  /\ At(t, "gc_copy")
  /\ globalData' = globalData \cup goroutines[t].view
  /\ goroutines' = [goroutines EXCEPT ![t].pc = "gc_update"]
  /\ UNCHANGED <<templateSet, sets, filters, engineMu, hist, templates, hookSideVars>>

\* if r.templateSet != nil { r.templateSet.Globals.Update(globalContext) }; return nil
\* (in Load the call is followed by the registration of the filters)
GlobalContextUpdate(t) ==
  /\ At(t, "gc_update")
  /\ sets' = IF templateSet # 0
             THEN [sets EXCEPT ![templateSet].Globals = @ \cup goroutines[t].view]
             ELSE sets
  /\ IF goroutines[t].op = "Load"
     THEN /\ goroutines' = [goroutines EXCEPT ![t].pc = "ld_filters"]
          /\ UNCHANGED hist
     ELSE /\ goroutines' = [goroutines EXCEPT ![t] = Return(@, <<>>, NoError)]
          /\ hist' = [hist EXCEPT !.promised = @ \cup goroutines[t].view]
  /\ UNCHANGED <<templateSet, globalData, filters, engineMu, templates, hookSideVars>>

\* r.Load(): baseDir is set, the loader is made
CallLoad(t, cap) ==
  /\ Callable(t, cap)
  /\ goroutines' = [goroutines EXCEPT ![t] =
                      [IdleGoroutine EXCEPT !.pc = "ld_set", !.op = "Load"]]
  /\ hist' = [hist EXCEPT !.calls = @ + 1]
  /\ UNCHANGED <<templateSet, sets, globalData, filters, engineMu, templates, hookSideVars>>

\* ts := pongo2.NewSet("default", loaders...); r.templateSet = ts
LoadSet(t) ==
  /\ At(t, "ld_set")
  /\ sets' = Append(sets, [Globals |-> {}])
  /\ templateSet' = Len(sets) + 1
  /\ goroutines' = [goroutines EXCEPT ![t].pc = "ld_convert"]
  /\ UNCHANGED <<globalData, filters, engineMu, hist, templates, hookSideVars>>

\* r.GlobalContext(r.globalData): convertToContext marshals the map
LoadConvert(t) ==
  /\ At(t, "ld_convert")
  /\ goroutines' = [goroutines EXCEPT
                      ![t].pc = "gc_copy",
                      ![t].view = ConvertToContext(MapData(globalData)).view]
  /\ UNCHANGED <<templateSet, sets, globalData, filters, engineMu, hist, templates, hookSideVars>>

\* for n, fn := range r.funcMap { if !pongo2.FilterExists(n) { pongo2.RegisterFilter(n, pfn) } }
\* return nil
LoadFilters(t) ==
  /\ At(t, "ld_filters")
  /\ filters' = [n \in (DOMAIN filters) \cup (DOMAIN DefaultFilters) |->
                   IF n \in DOMAIN filters THEN filters[n] ELSE DefaultFilters[n]]
  /\ goroutines' = [goroutines EXCEPT ![t] = Return(@, <<>>, NoError)]
  /\ UNCHANGED <<templateSet, sets, globalData, engineMu, hist, templates, hookSideVars>>

\* r.RenderString(templateContent, data)
CallRenderString(t, cap) ==
  /\ Callable(t, cap)
  /\ \E content \in EngineContents :
       goroutines' = [goroutines EXCEPT ![t] =
                        [IdleGoroutine EXCEPT !.pc = "rs_parse", !.op = "RenderString",
                                              !.name = content,
                                              !.promised = hist.promised]]
  /\ hist' = [hist EXCEPT !.calls = @ + 1]
  /\ UNCHANGED <<templateSet, sets, globalData, filters, engineMu, templates, hookSideVars>>

\* tmpl, err := r.templateSet.FromString(templateContent)
RenderStringParse(t) ==
  /\ At(t, "rs_parse")
  /\ LET p == FromString(goroutines[t].name)
     IN goroutines' = [goroutines EXCEPT ![t] =
          IF p.err # NoError THEN Return(@, <<>>, p.err)
          ELSE [@ EXCEPT !.pc = "exec",
                         !.tmpl = [file |-> p.tmpl, set |-> templateSet]]]
  /\ UNCHANGED <<templateSet, sets, globalData, filters, engineMu, hist, templates, hookSideVars>>

\* viewContext, err := convertToContext(data); tmpl.ExecuteWriter(viewContext, &buf):
\* the template is executed on the Globals of the set it was made by, updated
\* by viewContext; the string goes to the writers and is returned
Execute(t) ==
  /\ At(t, "exec")
  /\ LET g == goroutines[t]
         c == ConvertToContext(g.data)
         view == sets[g.tmpl.set].Globals \cup c.view
         x == ExecuteWriter(g.tmpl.file, view)
         w == WriteAndReturn(x.out, <<>>)
     IN goroutines' = [goroutines EXCEPT ![t] =
          IF c.err # NoError THEN Return(g, <<>>, c.err)
          ELSE IF x.err # NoError THEN Return(g, <<>>, x.err)
          ELSE Return([g EXCEPT !.view = view], w.out, w.err)]
  /\ UNCHANGED <<templateSet, sets, globalData, filters, engineMu, hist, templates, hookSideVars>>

\* r.RenderTemplate(name, data): templatePath := name (+ r.tplExt)
CallRenderTemplate(t, cap) ==
  /\ Callable(t, cap)
  /\ \E name \in EngineFiles :
       goroutines' = [goroutines EXCEPT ![t] =
                        [IdleGoroutine EXCEPT !.pc = "rt_rlock", !.op = "RenderTemplate",
                                              !.name = TemplatePath(name),
                                              !.promised = hist.promised]]
  /\ hist' = [hist EXCEPT !.calls = @ + 1]
  /\ UNCHANGED <<templateSet, sets, globalData, filters, engineMu, templates, hookSideVars>>

\* getTemplate: r.mu.RLock()
GetTemplateRLock(t) ==
  /\ At(t, "rt_rlock")
  /\ CanRLock(engineMu)
  /\ engineMu' = [engineMu EXCEPT !.readers = @ \cup {t}]
  /\ goroutines' = [goroutines EXCEPT ![t].pc = "rt_check"]
  /\ UNCHANGED <<templateSet, sets, globalData, filters, hist, templates, hookSideVars>>

\* if tmpl, ok := r.templates[path]; ok { r.mu.RUnlock(); return tmpl, nil }
\* r.mu.RUnlock()
GetTemplateCheck(t) ==
  /\ At(t, "rt_check")
  /\ engineMu' = [engineMu EXCEPT !.readers = @ \ {t}]
  /\ LET path == goroutines[t].name
     IN goroutines' = [goroutines EXCEPT ![t] =
          IF path \in DOMAIN templates
          THEN [@ EXCEPT !.pc = "exec", !.tmpl = templates[path]]
          ELSE [@ EXCEPT !.pc = "rt_lock"]]
  /\ UNCHANGED <<templateSet, sets, globalData, filters, hist, templates, hookSideVars>>

\* r.mu.Lock(); defer r.mu.Unlock()
GetTemplateLock(t) ==
  /\ At(t, "rt_lock")
  /\ CanLock(engineMu)
  /\ engineMu' = [engineMu EXCEPT !.writer = t]
  /\ goroutines' = [goroutines EXCEPT ![t].pc = "rt_recheck"]
  /\ UNCHANGED <<templateSet, sets, globalData, filters, hist, templates, hookSideVars>>

\* a getTemplate that does not look at the cache again once it holds the lock
CachedUnderLockSkipped(cache, path) == FALSE

\* if tmpl, ok := r.templates[path]; ok  (the second look, under the write lock)
CachedUnderLock(cache, path) == path \in DOMAIN cache

\* if tmpl, ok := r.templates[path]; ok { return tmpl, nil }
GetTemplateRecheck(t) ==
  /\ At(t, "rt_recheck")
  /\ LET path == goroutines[t].name
     IN IF CachedUnderLock(templates, path)
        THEN /\ goroutines' = [goroutines EXCEPT ![t].pc = "exec",
                                                 ![t].tmpl = templates[path]]
             /\ engineMu' = [engineMu EXCEPT !.writer = NoThread]
        ELSE /\ goroutines' = [goroutines EXCEPT ![t].pc = "rt_load"]
             /\ UNCHANGED engineMu
  /\ UNCHANGED <<templateSet, sets, globalData, filters, hist, templates, hookSideVars>>

\* compiled, err := r.templateSet.FromFile(path)
\* if err != nil { return nil, fmt.Errorf("failed to load template %s: %w", path, err) }
\* r.templates[path] = compiled; return compiled, nil
GetTemplateLoad(t) ==
  /\ At(t, "rt_load")
  /\ engineMu' = [engineMu EXCEPT !.writer = NoThread]
  /\ LET path == goroutines[t].name
         compiled == [file |-> path, set |-> templateSet]
     IN IF path \notin disk
        THEN /\ goroutines' = [goroutines EXCEPT ![t] =
                  Return(@, <<>>, Errorf("failed to load template", path, NoErr))]
             /\ UNCHANGED <<templates, hist>>
        ELSE /\ templates' = [k \in (DOMAIN templates) \cup {path} |->
                                IF k = path THEN compiled ELSE templates[k]]
             /\ hist' = [hist EXCEPT !.loads =
                           [k \in (DOMAIN @) \cup {path} |->
                              IF k \in DOMAIN @
                              THEN (IF k = path THEN @[k] + 1 ELSE @[k]) ELSE 1]]
             /\ goroutines' = [goroutines EXCEPT ![t].pc = "exec",
                                                 ![t].tmpl = compiled]
  /\ UNCHANGED <<templateSet, sets, globalData, filters, hookSideVars>>

\* r.RegisterFilter(name, fn)
CallRegisterFilter(t, cap) ==
  /\ Callable(t, cap)
  /\ \E name \in FilterNames :
       goroutines' = [goroutines EXCEPT ![t] =
                        [IdleGoroutine EXCEPT
                           !.pc = "rf_exists", !.op = "RegisterFilter",
                           !.name = <<name>>, !.fn = hist.calls + 1,
                           !.prior = IF name \in DOMAIN filters THEN filters[name]
                                     ELSE NoFilter]]
  /\ hist' = [hist EXCEPT !.calls = @ + 1]
  /\ UNCHANGED <<templateSet, sets, globalData, filters, engineMu, templates, hookSideVars>>

\* a RegisterFilter that reports success for a name that is taken
FilterExistsNever(registry, name) == FALSE

\* pongo2.FilterExists(name)
FilterExists(registry, name) == name \in DOMAIN registry

\* if !pongo2.FilterExists(name) { ... }; return fmt.Errorf("filter %s already exists", name)
RegisterFilterExists(t) ==
  /\ At(t, "rf_exists")
  /\ LET name == goroutines[t].name[1]
     IN goroutines' = [goroutines EXCEPT ![t] =
          IF FilterExists(filters, name)
          THEN Return(@, <<>>, Errorf("filter already exists", <<name>>, NoErr))
          ELSE [@ EXCEPT !.pc = "rf_register"]]
  /\ UNCHANGED <<templateSet, sets, globalData, filters, engineMu, hist, templates, hookSideVars>>

\* pongo2.RegisterFilter(name, pongo2Filter); return nil
\* (pongo2 keeps the filter a name already has; its error is not looked at)
RegisterFilterRegister(t) ==
  /\ At(t, "rf_register")
  /\ LET name == goroutines[t].name[1]
     IN filters' = IF name \in DOMAIN filters THEN filters
                   ELSE [n \in (DOMAIN filters) \cup {name} |->
                           IF n = name THEN goroutines[t].fn ELSE filters[n]]
  /\ goroutines' = [goroutines EXCEPT ![t] = Return(@, <<>>, NoError)]
  /\ UNCHANGED <<templateSet, sets, globalData, engineMu, hist, templates, hookSideVars>>

\* the accesses to shared state the next step of the goroutine makes; the
\* Globals of a template set are a field of their own for every set
Pending(t) ==
  LET g == goroutines[t]
  IN IF hist.fatal THEN {}
     ELSE IF g.pc = "gc_copy" THEN {[field |-> <<"globalData">>, write |-> TRUE]}
     ELSE IF g.pc = "gc_update"
     THEN {[field |-> <<"templateSet">>, write |-> FALSE]}
          \cup (IF templateSet # 0
                THEN {[field |-> <<"Globals", templateSet>>, write |-> TRUE]} ELSE {})
     ELSE IF g.pc = "ld_set" THEN {[field |-> <<"templateSet">>, write |-> TRUE]}
     ELSE IF g.pc = "ld_convert" THEN {[field |-> <<"globalData">>, write |-> FALSE]}
     ELSE IF g.pc = "rs_parse" THEN {[field |-> <<"templateSet">>, write |-> FALSE]}
     ELSE IF g.pc = "exec" THEN {[field |-> <<"Globals", g.tmpl.set>>, write |-> FALSE]}
     ELSE IF g.pc \in {"rt_check", "rt_recheck"}
     THEN {[field |-> <<"templates">>, write |-> FALSE]}
     ELSE IF g.pc = "rt_load"
     THEN {[field |-> <<"templateSet">>, write |-> FALSE]}
          \cup (IF g.name \in Files
                THEN {[field |-> <<"templates">>, write |-> TRUE]} ELSE {})
     ELSE {}

\* two goroutines are about to access the same field, one of them writing
Conflict(a, b) == a.field = b.field /\ (a.write \/ b.write)

\* the accesses of t that another goroutine's next access conflicts with
Racing(t) ==
  {a \in Pending(t) : \E u \in Threads \ {t} : \E b \in Pending(u) : Conflict(a, b)}

\* the Go runtime finds a map read or written while another goroutine writes
\* it and ends the process ("fatal error: concurrent map writes")
FatalRace(t) ==
  /\ \E a \in Racing(t) : a.field # <<"templateSet">>
  /\ hist' = [hist EXCEPT !.fatal = TRUE]
  /\ UNCHANGED <<templateSet, sets, globalData, filters, engineMu, goroutines, templates, hookSideVars>>

\* the steps of goroutine t, which starts a call while fewer than cap were made
EngineStep(t, cap) ==
  \/ CallGlobalContext(t, cap)
  \/ GlobalContextCopy(t)
  \/ GlobalContextUpdate(t)
  \/ CallLoad(t, cap)
  \/ LoadSet(t)
  \/ LoadConvert(t)
  \/ LoadFilters(t)
  \/ CallRenderString(t, cap)
  \/ RenderStringParse(t)
  \/ CallRenderTemplate(t, cap)
  \/ GetTemplateRLock(t)
  \/ GetTemplateCheck(t)
  \/ GetTemplateLock(t)
  \/ GetTemplateRecheck(t)
  \/ GetTemplateLoad(t)
  \/ Execute(t)
  \/ CallRegisterFilter(t, cap)
  \/ RegisterFilterExists(t)
  \/ RegisterFilterRegister(t)

\* goroutines call the methods of one Engine concurrently
NextEngine == \E t \in Threads : EngineStep(t, MaxEngineCalls) \/ FatalRace(t)

SpecEngine == Init /\ [][NextEngine]_vars

\* one goroutine calls the methods of the Engine one after the other
NextEngineSeq == EngineStep(MainThread, MaxSeqCalls)

SpecEngineSeq == Init /\ [][NextEngineSeq]_vars

(***************************************************************************)
(* Engine.Render: the name is a file name or the template itself           *)
(***************************************************************************)
\* the names given to Render: the names and contents of the other render
\* calls, and every text of a few braces, percent signs and words
RenderNames ==
  {r.name : r \in Requests}
    \cup UNION {[1..n -> {"{", "%", "simple"}] : n \in 0..MaxNameLen}

\* the writers handed to Render: those of the other render calls, and two
\* that both take what is written
RenderWriterLists == WriterLists \cup {<<"ok", "ok">>}

\* result, err := renderer.Render(name, data, out...)
CallRender ==
  /\ \E name \in RenderNames, data \in {MapData({"name"}), Unconvertible},
        writers \in RenderWriterLists :
       LET r == Render(name, data, writers, templates)
       IN /\ render' = [NoRender EXCEPT
                          !.state = IF r.err # NoError THEN "Aborted" ELSE "Completed",
                          !.req = [op |-> "Render", name |-> name, data |-> data],
                          !.writers = writers, !.out = r.out, !.err = r.err,
                          !.written = r.written]
          /\ templates' = r.cache
  /\ UNCHANGED <<preHooks, postHooks, nextId, registryVars, chainVars, other, engineShared>>

SpecDispatch == Init /\ [][CallRender]_vars

(***************************************************************************)
(* Properties of the HookManager                                           *)
(***************************************************************************)
\* the priority a registration was made with (0 when none was given)
RegPrio(e) == IF e.priority = <<>> THEN 0 ELSE e.priority[1]

\* registrations of one kind whose calls have returned
Registered(kind) == {i \in 1..Len(regLog) : regLog[i].kind = kind}

\* positions in regLog of the hook value id, registered as kind
RegIndex(kind, id) == {i \in Registered(kind) : regLog[i].id = id}

\* out lists registered hooks of this kind only, in ascending priority
SortedByPriority(kind, out) ==
  /\ \A i \in 1..Len(out) : RegIndex(kind, out[i]) # {}
  /\ \A i, j \in 1..Len(out) :
       \A a \in RegIndex(kind, out[i]), b \in RegIndex(kind, out[j]) :
         RegPrio(regLog[a]) < RegPrio(regLog[b]) => i < j

\* C1: whatever the order and the priorities of the registrations, the
\* sequence PreHooks() / PostHooks() returns is in ascending priority: a hook
\* of priority p stands before every hook of priority q > p.
C1_PriorityOrder ==
  \A t \in Threads :
    ret[t].kind # "none" => SortedByPriority(ret[t].kind, ret[t].out)

\* three hooks of priorities 1, 0, -1 registered in descending order are returned
C1_Witness ==
  \E t \in Threads :
    /\ ret[t].kind = "pre"
    /\ Len(ret[t].out) = 3
    /\ Len(regLog) = 3
    /\ \A i \in 1..3 : regLog[i].kind = "pre" /\ regLog[i].priority = <<2 - i>>
    /\ ret[t].out = <<regLog[3].id, regLog[2].id, regLog[1].id>>

\* C2: hooks of equal priority are returned in registration order, also when
\* registrations at other priorities came between them.
C2_StableTieBreak ==
  \A t \in Threads :
    ret[t].kind # "none" =>
      \A i, j \in 1..Len(ret[t].out) :
        \A a \in RegIndex(ret[t].kind, ret[t].out[i]),
           b \in RegIndex(ret[t].kind, ret[t].out[j]) :
          (RegPrio(regLog[a]) = RegPrio(regLog[b]) /\ a < b) => i < j

\* two post-hooks of priority 1 with a registration at priority -1 between them
C2_Witness ==
  \E t \in Threads :
    /\ ret[t].kind = "post"
    /\ Len(regLog) = 3
    /\ \A i \in 1..3 : regLog[i].kind = "post"
    /\ regLog[1].priority = <<1>>
    /\ regLog[2].priority = <<0 - 1>>
    /\ regLog[3].priority = <<1>>
    /\ ret[t].out = <<regLog[2].id, regLog[1].id, regLog[3].id>>

\* no AddPreHook / AddPostHook call is in progress
AllCallsReturned == \A t \in Threads : args[t] = NoArgs

\* C3: once every registration call has returned, PreHooks() and PostHooks()
\* return, for N registrations, N hooks in total, each registered hook once.
C3_NoLostUpdates ==
  AllCallsReturned =>
    \A preKeys \in KeyOrders(preHooks), postKeys \in KeyOrders(postHooks) :
      LET pre == CollectHooks(preHooks, preKeys)
          post == CollectHooks(postHooks, postKeys)
      IN /\ Len(pre) + Len(post) = nextId - 1
         /\ Len(regLog) = nextId - 1
         /\ Range(pre) = {regLog[i].id : i \in Registered("pre")}
         /\ Range(post) = {regLog[i].id : i \in Registered("post")}
         /\ Cardinality(Range(pre)) = Len(pre)
         /\ Cardinality(Range(post)) = Len(post)

\* all calls have returned, more than one thread has registered, and two of
\* the hooks share a bucket
C3_Witness ==
  /\ AllCallsReturned
  /\ Cardinality(regThreads) >= 2
  /\ nextId - 1 = MaxConcRegs
  /\ \/ \E p \in DOMAIN preHooks : Len(preHooks[p]) >= 2
     \/ \E p \in DOMAIN postHooks : Len(postHooks[p]) >= 2

\* C16: on a manager nothing was registered in, PreHooks() and PostHooks()
\* return the empty sequence.
C16_EmptyRegistry ==
  \A t \in Threads :
    (ret[t].kind # "none" /\ nextId = 1) => ret[t].out = <<>>

\* PostHooks() has returned on a manager without registrations
C16_Witness ==
  \E t \in Threads :
    /\ ret[t].kind = "post"
    /\ nextId = 1
    /\ regLog = <<>>
    /\ ret[t].out = <<>>

\* thread t is between Lock() and Unlock() of AddPreHook / AddPostHook
InWrite(t) ==
  pc[t] \in {"pre_lookup", "pre_store", "pre_unlock",
             "post_lookup", "post_store", "post_unlock"}

\* thread t is between RLock() and RUnlock() of PreHooks() / PostHooks()
InRead(t) == pc[t] \in {"pre_runlock", "post_runlock"}

\* C19: no registration is inside its locked section while another
\* registration or a read of the buckets is inside its own; reads may be
\* inside theirs together.
C19_ReadWriteExclusion ==
  /\ \A t, u \in Threads :
       (t # u /\ InWrite(t)) => (~InWrite(u) /\ ~InRead(u))
  /\ \A t \in Threads :
       /\ InWrite(t) => (mu.writer = t /\ mu.readers = {})
       /\ InRead(t) => (t \in mu.readers /\ mu.writer = NoThread)

\* two threads are inside PreHooks() / PostHooks() at the same time, on a
\* manager that holds hooks
C19_Witness ==
  /\ \E t, u \in Threads : t # u /\ InRead(t) /\ InRead(u)
  /\ Cardinality(mu.readers) >= 2
  /\ Len(regLog) >= 1

(***************************************************************************)
(* Properties of the HookChain                                             *)
(***************************************************************************)
\* positions of the hooks whose body returns an error
Failing(hooks) == {i \in 1..Len(hooks) : hooks[i].kind \in {"fail", "failout"}}

\* the first position of a non-empty set of positions
First(S) == CHOOSE i \in S : \A j \in S : i <= j

\* calls lists exactly the hooks 1..n of hooks, in that order
InvokedInOrder(calls, hooks, n) ==
  /\ Len(calls) = n
  /\ \A i \in 1..n : calls[i].id = hooks[i].id

\* C4: ExecutePreHooks invokes the pre-hooks in append order; when the k-th
\* hook fails exactly the hooks 1..k have been invoked and its error is returned.
C4_PreFailFast ==
  last.op = "ExecutePreHooks" =>
    IF Failing(last.hooks) = {}
    THEN last.err = NoErr /\ InvokedInOrder(last.calls, last.hooks, Len(last.hooks))
    ELSE LET k == First(Failing(last.hooks))
         IN /\ InvokedInOrder(last.calls, last.hooks, k)
            /\ last.err = ErrOf(last.hooks[k])
            /\ last.err # NoErr

\* the chain [ok, fail, ok] was executed: two hooks ran, the third did not
C4_Witness ==
  /\ last.op = "ExecutePreHooks"
  /\ Len(last.hooks) = 3
  /\ last.hooks[1].kind = "ok" /\ last.hooks[2].kind = "fail" /\ last.hooks[3].kind = "ok"
  /\ Len(last.calls) = 2
  /\ last.err = ErrOf(last.hooks[2])

\* the string the body of post-hook h returns when ctx.Output is s
HookReturns(h, s) == IF h.kind \in {"prepend", "failout"} THEN <<h.id>> \o s ELSE <<>>

\* hn(...h2(h1(s)))
RECURSIVE Threaded(_, _)
Threaded(hooks, s) ==
  IF hooks = <<>> THEN s ELSE Threaded(Tail(hooks), HookReturns(Head(hooks), s))

\* C5: when every post-hook succeeds, hook i is invoked with the string hook
\* i-1 returned (the original output for hook 1), and the result and
\* ctx.Output both are the string the last hook returned, hn(...h1(original)).
C5_PostThreading ==
  (last.op = "ExecutePostHooks" /\ Failing(last.hooks) = {}) =>
    LET n == Len(last.hooks)
    IN /\ last.err = NoErr
       /\ InvokedInOrder(last.calls, last.hooks, n)
       /\ \A i \in 1..n :
            /\ last.calls[i].seen =
                 IF i = 1 THEN last.ctx0.Output ELSE last.calls[i - 1].out
            /\ last.calls[i].out = HookReturns(last.hooks[i], last.calls[i].seen)
       /\ last.out = Threaded(last.hooks, last.ctx0.Output)
       /\ last.ctx.Output = last.out
       /\ n > 0 => last.out = last.calls[n].out

\* three prepending hooks on "original" give hook3-hook2-hook1-original
C5_Witness ==
  /\ last.op = "ExecutePostHooks"
  /\ Len(last.hooks) = 3
  /\ \A i \in 1..3 : last.hooks[i].kind = "prepend"
  /\ last.ctx0.Output = <<0>>
  /\ last.out = <<3, 2, 1, 0>>
  /\ last.calls[3].seen = <<2, 1, 0>>

\* C6: when the k-th post-hook fails, the hooks after it are not invoked, its
\* error is returned and the returned output is the empty string.
C6_PostFailFast ==
  (last.op = "ExecutePostHooks" /\ Failing(last.hooks) # {}) =>
    LET k == First(Failing(last.hooks))
    IN /\ InvokedInOrder(last.calls, last.hooks, k)
       /\ last.err = ErrOf(last.hooks[k])
       /\ last.err # NoErr
       /\ last.out = <<>>

\* the second of three post-hooks fails while returning a non-empty string
C6_Witness ==
  /\ last.op = "ExecutePostHooks"
  /\ Len(last.hooks) = 3
  /\ last.hooks[1].kind = "prepend" /\ last.hooks[2].kind = "failout"
  /\ last.hooks[3].kind = "prepend"
  /\ last.ctx0.Output = <<0>>
  /\ Len(last.calls) = 2
  /\ last.calls[2].out # <<>>
  /\ last.out = <<>>

(***************************************************************************)
(* Properties of a render                                                  *)
(***************************************************************************)
\* positions of the events of one kind in the trace of the render
Events(ev) == {k \in 1..Len(render.trace) : render.trace[k].ev = ev}

\* positions at which a hook of the render returned an error
FailedAt(ev) == {k \in Events(ev) : render.trace[k].hook.kind \in {"fail", "failout"}}

\* C7: a failing pre-hook aborts the render with "pre-hook failed" and the
\* hook's error; the engine is not executed and no post-hook is invoked.
C7_PreHookAborts ==
  \A k \in FailedAt("pre") :
    /\ render.state = "Aborted"
    /\ render.err.msg = "pre-hook failed"
    /\ render.err.cause = ErrOf(render.trace[k].hook)
    /\ render.err.cause # NoErr
    /\ render.out = <<>>
    /\ k = Len(render.trace)
    /\ Events("engine") = {}
    /\ Events("post") = {}

\* a pre-hook ran, the next one failed, and a post-hook was registered
C7_Witness ==
  /\ render.state = "Aborted"
  /\ render.err.msg = "pre-hook failed"
  /\ Len(render.trace) = 2
  /\ render.trace[1].hook.kind = "ok"
  /\ render.trace[2].hook.kind = "fail"
  /\ DOMAIN postHooks # {}

\* C8: a failing post-hook aborts the render with "post-hook failed" and the
\* hook's error; later post-hooks are not invoked and no output is returned.
C8_PostHookAborts ==
  \A k \in FailedAt("post") :
    /\ render.state = "Aborted"
    /\ render.err.msg = "post-hook failed"
    /\ render.err.cause = ErrOf(render.trace[k].hook)
    /\ render.err.cause # NoErr
    /\ k = Len(render.trace)
    /\ render.out = <<>>

\* the engine rendered, a post-hook transformed the output, the next one
\* failed and a third one was left
C8_Witness ==
  /\ render.state = "Aborted"
  /\ render.err.msg = "post-hook failed"
  /\ Len(render.seq) = 3
  /\ render.i = 2
  /\ render.seq[1].kind = "prepend"
  /\ render.ctx.Output = <<render.seq[1].id>> \o RawOutput
  /\ render.out = <<>>

\* pre-hooks, then the engine, then post-hooks
StageOf(ev) == IF ev = "pre" THEN 1 ELSE IF ev = "engine" THEN 2 ELSE 3

\* the hook values held by the buckets of a registry
BucketHooks(buckets) ==
  UNION {{buckets[p][i] : i \in 1..Len(buckets[p])} : p \in DOMAIN buckets}

\* the trace of a render is pre-hooks in priority order, at most one engine
\* execution, post-hooks in priority order, no hook twice; the engine runs
\* after every registered pre-hook, and the outcome fits the final state
StageOrderOK(rd) ==
  LET tr == rd.trace
      n == Len(tr)
  IN /\ \A i, j \in 1..n : i < j => StageOf(tr[i].ev) <= StageOf(tr[j].ev)
     /\ \A i, j \in 1..n : (tr[i].ev = "engine" /\ tr[j].ev = "engine") => i = j
     /\ \A i, j \in 1..n :
          (i < j /\ tr[i].ev = tr[j].ev) =>
            /\ tr[i].hook.id # tr[j].hook.id
            /\ tr[i].hook.prio <= tr[j].hook.prio
            /\ tr[i].hook.prio = tr[j].hook.prio => tr[i].hook.id < tr[j].hook.id
     /\ (\E k \in 1..n : tr[k].ev = "engine") =>
          {tr[k].hook : k \in {m \in 1..n : tr[m].ev = "pre"}} = Range(rd.pre)
     /\ rd.state = "Completed" =>
          /\ rd.err = NoError
          /\ \E k \in 1..n : tr[k].ev = "engine"
          /\ {tr[k].hook : k \in {m \in 1..n : tr[m].ev = "post"}} = Range(rd.seq)
          /\ rd.out = rd.ctx.Output
     /\ rd.state = "Aborted" => (rd.err # NoError /\ rd.out = <<>>)
     /\ rd.state \in {"Idle", "PreHooksRunning", "PostHooksRunning", "Completed", "Aborted"}

\* a step of a render moves it forward by one stage or one hook; the hooks
\* it is going to run are the hooks registered when the stage begins
StageStep ==
  \/ render' = render
  \/ /\ Returned(render)
     /\ render'.state = "PreHooksRunning" /\ render'.trace = <<>>
     /\ Range(render'.pre) = BucketHooks(preHooks')
  \/ /\ render.state = "PreHooksRunning"
     /\ render'.state \in {"PreHooksRunning", "PostHooksRunning", "Aborted"}
     /\ Len(render'.trace) = Len(render.trace) + 1
     /\ SubSeq(render'.trace, 1, Len(render.trace)) = render.trace
     /\ render'.state = "PreHooksRunning" => render'.trace[Len(render'.trace)].ev = "pre"
     /\ render'.state = "PostHooksRunning" =>
          /\ render'.trace[Len(render'.trace)].ev = "engine"
          /\ Range(render'.seq) = BucketHooks(postHooks')
  \/ /\ render.state = "PostHooksRunning"
     /\ render'.state \in {"PostHooksRunning", "Aborted"}
     /\ Len(render'.trace) = Len(render.trace) + 1
     /\ SubSeq(render'.trace, 1, Len(render.trace)) = render.trace
     /\ render'.trace[Len(render'.trace)].ev = "post"
  \/ /\ render.state = "PostHooksRunning"
     /\ render'.state \in {"Completed", "Aborted"}
     /\ render'.trace = render.trace

\* C9: within a render the pre-hooks run in priority order before the engine,
\* the engine before the post-hooks, which run in priority order; no hook is
\* invoked twice and the render ends in one terminal state, Aborted(error)
\* or Completed(output), which it leaves only for the next render call.
C9_StageOrder == [][StageOrderOK(render') /\ StageStep]_vars

\* two pre-hooks registered against their priority order, the engine and a
\* post-hook ran, and the render completed
C9_Witness ==
  /\ render.state = "Completed"
  /\ Len(render.trace) = 4
  /\ render.trace[1].ev = "pre" /\ render.trace[2].ev = "pre"
  /\ render.trace[1].hook.id > render.trace[2].hook.id
  /\ render.trace[3].ev = "engine"
  /\ render.trace[4].ev = "post"
  /\ render.out = <<render.trace[4].hook.id>> \o RawOutput

\* the renders whose template cannot be loaded, parsed or executed, or whose
\* data cannot be converted
EngineFails(req) ==
  \/ req.op = "RenderTemplate" /\ req.name \in {<<"missing">>, <<"faulty">>}
  \/ req.op = "RenderString" /\ req.name = InvalidContent
  \/ req.data = Unconvertible

\* C10: when the engine fails, the render returns an error and the empty
\* string, and no post-hook is invoked.
C10_EngineFailure ==
  (Events("engine") # {} /\ EngineFails(render.req)) =>
    /\ render.state = "Aborted"
    /\ render.err # NoError
    /\ render.err.msg \in {"failed to load template", "failed to parse template string",
                           "failed to convert data to context",
                           "failed to execute template"}
    /\ render.out = <<>>
    /\ Events("post") = {}
    /\ render.written = <<>>

\* a pre-hook ran, the template failed at execution, a post-hook was registered
C10_Witness ==
  /\ render.state = "Aborted"
  /\ render.err.msg = "failed to execute template"
  /\ Events("pre") # {}
  /\ DOMAIN postHooks # {}
  /\ render.out = <<>>

\* the engine of the render returned a string
EngineSucceeded ==
  \/ render.state \in {"PostHooksRunning", "Completed"}
  \/ render.state = "Aborted" /\ render.err.msg \in {"post-hook failed", "write failed"}

\* the template the render executes
TemplateOf(req) == IF req.op = "RenderTemplate" THEN TemplatePath(req.name) ELSE req.name

\* C11: the engine executes the template with ctx.Data as the pre-hooks left
\* it: the string it returns is the template executed on that data, and it
\* holds the value of a key that a pre-hook of this render has added, also
\* when the hook had to replace ctx.Data by a map to add it.
C11_DataVisible ==
  EngineSucceeded =>
    /\ render.raw = ExecuteWriter(TemplateOf(render.req),
                                  ConvertToContext(render.ctx.Data).view).out
    /\ (\E k \in Events("pre") : render.trace[k].hook.kind = "defaults") =>
         /\ render.ctx.Data.kind = "map"
         /\ DefaultKey \in render.ctx.Data.keys
         /\ \E n \in 1..Len(render.raw) : render.raw[n] = VarMarker(DefaultKey)

\* a render called with nil data on which a SetDefaultsHook replaced ctx.Data
\* by a map holding the default, and one called with a map that got the key
C11_Witness ==
  /\ EngineSucceeded
  /\ render.req.data \in {NilData, MapData({"name"})}
  /\ Events("pre") # {}
  /\ render.raw = RawOutput \o Substitute(TemplateVars(TemplateOf(render.req)),
                                            render.req.data.keys \cup {DefaultKey})
  /\ render.raw # ExecuteWriter(TemplateOf(render.req),
                                ConvertToContext(render.req.data).view).out

\* C12: a render call returns either no error and the complete output, the
\* string of the engine transformed by every post-hook of the render in
\* order, or an error and the empty string; never a string with an error.
C12_AllOrNothing ==
  (Returned(render) /\ render.state # "Idle") =>
    \/ /\ render.state = "Completed"
       /\ render.err = NoError
       /\ {render.trace[k].hook : k \in Events("post")} = Range(render.seq)
       /\ render.out = Threaded(render.seq, render.raw)
    \/ /\ render.state = "Aborted"
       /\ render.err # NoError
       /\ render.out = <<>>

\* a render through two post-hooks that wrote to a writer and returned the
\* transformed string
C12_Witness ==
  /\ render.state = "Completed"
  /\ Len(render.seq) = 2
  /\ render.writers = <<"ok">>
  /\ render.raw # <<>>
  /\ render.out = <<render.seq[2].id, render.seq[1].id>> \o render.raw

\* a render that had its output written to the first writer and failed at
\* the second
WriterFailed ==
  /\ render.state = "Aborted"
  /\ render.err.msg = "write failed"
  /\ render.ctx.Output # <<>>
  /\ render.written # <<>>

(***************************************************************************)
(* Properties of the closures of a HookChain                               *)
(***************************************************************************)
\* the outcome of a call, without the name of the operation
OutcomeOf(call) ==
  [ctx |-> call.ctx, out |-> call.out, err |-> call.err, calls |-> call.calls]

\* C14: on every chain and context the closure of AsPreHook() does what
\* ExecutePreHooks does and the closure of AsPostHook() what ExecutePostHooks
\* does: the same hooks invoked in the same order, the same output and
\* error returned, the same context left.
C14_ClosureEquivalence ==
  /\ last.op = "AsPreHook" =>
       LET e == ExecutePreHooksFrom(last.hooks, 1, last.ctx0, NoErr, <<>>)
       IN OutcomeOf(last) = [ctx |-> e.ctx, out |-> <<>>, err |-> e.err,
                             calls |-> e.calls]
  /\ last.op = "AsPostHook" =>
       LET e == ExecutePostHooksFrom(last.hooks, 1, last.ctx0, last.ctx0.Output, <<>>)
       IN OutcomeOf(last) = [ctx |-> e.ctx, out |-> e.out, err |-> e.err,
                             calls |-> e.calls]

\* the closure of AsPostHook() ran two prepending hooks on "original" and
\* left their output in the context
C14_Witness ==
  /\ last.op = "AsPostHook"
  /\ Len(last.hooks) = 2
  /\ \A i \in 1..2 : last.hooks[i].kind = "prepend"
  /\ last.ctx0.Output = <<0>>
  /\ last.out = <<2, 1, 0>>
  /\ last.ctx.Output = <<2, 1, 0>>
  /\ Len(last.calls) = 2

\* C15: on a chain without hooks ExecutePreHooks succeeds and leaves the
\* context as it was, and ExecutePostHooks returns ctx.Output as it was and
\* no error; so do the closures of AsPreHook() and AsPostHook().
C15_EmptyChain ==
  (last.op # "none" /\ last.hooks = <<>>) =>
    /\ last.err = NoErr
    /\ last.ctx = last.ctx0
    /\ last.calls = <<>>
    /\ last.op \in {"ExecutePostHooks", "AsPostHook"} => last.out = last.ctx0.Output

\* the closure of AsPostHook() of a chain that has pre-hooks but no
\* post-hook was called on "original"
C15_Witness ==
  /\ last.op = "AsPostHook"
  /\ last.hooks = <<>>
  /\ chainPre # <<>>
  /\ last.ctx0.Output = <<0>>
  /\ last.out = <<0>>

(***************************************************************************)
(* Properties of a chain registered in a manager                           *)
(***************************************************************************)
\* the number of hooks a call of the manager's hook h stands for
UnitSize(h, chain) == IF h.kind = "chain" THEN Len(chain) ELSE 1

\* C13: a chain registered through AsPreHook() / AsPostHook() at priority c
\* runs as one unit: its hooks run one after the other in append order,
\* after every hook registered at a priority below c and before every hook
\* registered at a priority above c; when no hook fails all of them run.
C13_ChainAsUnit ==
  last.op \in {"ManagerPreHooks", "ManagerPostHooks"} =>
    LET c == last.calls
        chain == IF last.op = "ManagerPreHooks" THEN chainPre ELSE chainPost
    IN /\ \A i, j \in 1..Len(c) :
            /\ (i < j /\ c[i].via = c[j].via) =>
                 /\ \A k \in i..j : c[k].via = c[i].via
                 /\ c[j].id = c[i].id + (j - i)
            /\ c[i].prio < c[j].prio => i < j
       /\ last.err = NoErr =>
            \A n \in 1..Len(last.hooks) :
              LET h == last.hooks[n]
                  mine == {i \in 1..Len(c) : c[i].via = h.id}
              IN /\ Cardinality(mine) = UnitSize(h, chain)
                 /\ h.kind = "chain" => {c[i].id : i \in mine} = 1..Len(chain)

\* a chain of two post-hooks registered at priority 10 before an independent
\* hook at priority 5: the independent hook ran first, then the two of the chain
C13_Witness ==
  /\ last.op = "ManagerPostHooks"
  /\ last.err = NoErr
  /\ Len(chainPost) = 2
  /\ Len(last.hooks) = 2
  /\ last.hooks[1].kind = "prepend" /\ last.hooks[1].prio = 5 /\ last.hooks[1].id = 2
  /\ last.hooks[2].kind = "chain" /\ last.hooks[2].prio = 10
  /\ Len(last.calls) = 3
  /\ last.calls[1].id = 0 /\ last.calls[2].id = 1 /\ last.calls[3].id = 2
  /\ last.ctx0.Output = <<0>>
  /\ last.out = <<2, 1, 2, 0>>

\* C17: a render on a renderer without hooks returns what the engine alone
\* returns for the caller's data: its string, or its error.
C17_IdentityPipeline ==
  (Returned(render) /\ render.state # "Idle" /\ render.pre = <<>> /\ render.seq = <<>>) =>
    LET e == EngineRender(render.req.op, render.req.name, render.req.data, EmptyMap)
        w == WriteAndReturn(e.out, render.writers)
    IN /\ render.trace = IF Events("engine") = {} THEN <<>> ELSE <<render.trace[1]>>
       /\ IF e.err # NoError
          THEN render.err = e.err /\ render.out = <<>>
          ELSE render.raw = e.out /\ render.err = w.err /\ render.out = w.out

\* simple.tpl rendered with a name on a renderer nothing was registered on
C17_Witness ==
  /\ render.state = "Completed"
  /\ nextId = 1
  /\ render.req = [op |-> "RenderTemplate", name |-> <<"simple">>, data |-> MapData({"name"})]
  /\ render.writers = <<"ok">>
  /\ render.out = <<0, VarMarker("name")>>
  /\ render.written = <<[w |-> 1, str |-> render.out]>>

(***************************************************************************)
(* Properties of renders under concurrent registration                     *)
(***************************************************************************)
\* the hooks of the events of one kind, in the order of the trace
RECURSIVE HooksOf(_, _)
HooksOf(tr, ev) ==
  IF tr = <<>> THEN <<>>
  ELSE (IF Head(tr).ev = ev THEN <<Head(tr).hook>> ELSE <<>>) \o HooksOf(Tail(tr), ev)

\* s is the beginning of t
IsPrefix(s, t) == Len(s) <= Len(t) /\ SubSeq(t, 1, Len(s)) = s

\* the render has invoked the hooks of its snapshots, in their order, and no other
ExecutesSnapshot(rd) ==
  /\ IsPrefix(HooksOf(rd.trace, "pre"), rd.pre)
  /\ (\E k \in 1..Len(rd.trace) : rd.trace[k].ev = "engine") =>
       HooksOf(rd.trace, "pre") = rd.pre
  /\ HooksOf(rd.trace, "post") # <<>> => IsPrefix(HooksOf(rd.trace, "post"), rd.seq)
  /\ rd.state = "Completed" => HooksOf(rd.trace, "post") = rd.seq

\* C18: the sequence PreHooks() / PostHooks() returned to a render is not
\* changed by a registration made after the read: the render keeps the
\* sequence it obtained and invokes exactly its hooks, in its order, also
\* when hooks are registered while it runs.
C18_SnapshotIsolation ==
  [][/\ (render.state = "PreHooksRunning" /\ ~Returned(render')) => render'.pre = render.pre
     /\ (render.state = "PostHooksRunning" /\ ~Returned(render')) => render'.seq = render.seq
     /\ (render.state = "PreHooksRunning" /\ render'.state = "PostHooksRunning") =>
          \E keys \in KeyOrders(postHooks) : render'.seq = CollectHooks(postHooks, keys)
     /\ (Returned(render) /\ ~Returned(render')) =>
          \E keys \in KeyOrders(preHooks) : render'.pre = CollectHooks(preHooks, keys)
     /\ (preHooks' # preHooks \/ postHooks' # postHooks) => render' = render
     /\ ExecutesSnapshot(render')]_vars

\* a render in progress that has run the one pre-hook of its sequence and
\* the engine, and not the pre-hook of lower priority registered after it
\* had read the sequence
C18_Witness ==
  /\ render.state = "PostHooksRunning"
  /\ Len(render.pre) = 1
  /\ HooksOf(render.trace, "pre") = render.pre
  /\ \E h \in BucketHooks(preHooks) \ Range(render.pre) : h.prio < render.pre[1].prio

(***************************************************************************)
(* Properties of renders of two goroutines                                 *)
(***************************************************************************)
\* the HookContext of a render nothing has touched yet
FreshContext(req) ==
  [TemplateName |-> IF req.op = "RenderTemplate" THEN req.name ELSE <<>>,
   Template |-> IF req.op = "RenderString" THEN req.name ELSE <<>>,
   Data |-> req.data, Output |-> <<>>, Metadata |-> {}, IsPreHook |-> TRUE]

\* the ctx.Output each invoked hook was called with
SeenBy(calls) == [k \in 1..Len(calls) |-> calls[k].seen]

\* the events of one kind, in the order of the trace
RECURSIVE EventsOf(_, _)
EventsOf(tr, ev) ==
  IF tr = <<>> THEN <<>>
  ELSE (IF Head(tr).ev = ev THEN <<Head(tr)>> ELSE <<>>) \o EventsOf(Tail(tr), ev)

\* what the call returns, and what its hooks are called with, when it is the
\* only render of a renderer that has these hooks and has loaded no template
Alone(req, pre, post, writers) ==
  LET p == ExecutePreHooksFrom(pre, 1, FreshContext(req), NoErr, <<>>)
      e == EngineRender(req.op, req.name, p.ctx.Data, EmptyMap)
      q == ExecutePostHooksFrom(post, 1,
                                [p.ctx EXCEPT !.Output = e.out, !.IsPreHook = FALSE],
                                e.out, <<>>)
      w == WriteAndReturn(q.out, writers)
  IN IF p.err # NoErr
     THEN [out |-> <<>>, err |-> Errorf("pre-hook failed", <<>>, p.err),
           pre |-> SeenBy(p.calls), post |-> <<>>]
     ELSE IF e.err # NoError
     THEN [out |-> <<>>, err |-> e.err, pre |-> SeenBy(p.calls), post |-> <<>>]
     ELSE IF q.err # NoErr
     THEN [out |-> <<>>, err |-> Errorf("post-hook failed", <<>>, q.err),
           pre |-> SeenBy(p.calls), post |-> SeenBy(q.calls)]
     ELSE [out |-> w.out, err |-> w.err, pre |-> SeenBy(p.calls),
           post |-> SeenBy(q.calls)]

\* the render has returned what it returns alone, and its hooks were called
\* with what they are called with when it is alone
Isolated(rd) ==
  LET a == Alone(rd.req, rd.pre, rd.seq, rd.writers)
  IN /\ rd.out = a.out
     /\ rd.err = a.err
     /\ SeenBy(EventsOf(rd.trace, "pre")) = a.pre
     /\ SeenBy(EventsOf(rd.trace, "post")) = a.post

\* C20: no step of a render, failing or succeeding, changes the registered
\* hooks or the render of the other goroutine, and every render returns what
\* it returns when no other render, before it or beside it, takes place; its
\* hooks see the context of this render only.
C20_RenderFrame ==
  [][/\ (render' # render \/ other' # other) =>
          (preHooks' = preHooks /\ postHooks' = postHooks)
     /\ render' # render => other' = other
     /\ other' # other => render' = render
     /\ (Returned(render') /\ render'.state # "Idle") => Isolated(render')
     /\ (Returned(other') /\ other'.state # "Idle") => Isolated(other')]_vars

\* one goroutine's render of faulty.tpl has failed, the other's render of
\* simple.tpl has returned its output, both have run the registered hook,
\* and the registry holds the hook it held
C20_Witness ==
  /\ other.state = "Aborted"
  /\ other.err.msg = "failed to execute template"
  /\ render.state = "Completed"
  /\ render.req.name = <<"simple">>
  /\ DOMAIN templates = Files
  /\ Len(render.pre) = 1
  /\ render.pre = other.pre
  /\ HooksOf(render.trace, "pre") = render.pre
  /\ HooksOf(other.trace, "pre") = other.pre
  /\ BucketHooks(preHooks) = Range(render.pre)

(***************************************************************************)
(* Properties of the Engine used by several goroutines                     *)
(***************************************************************************)
\* C21: in every interleaving of Render / RenderTemplate / RenderString,
\* GlobalContext, Load and RegisterFilter calls on one Engine, no goroutine
\* is about to write globalData, templateSet, the Globals of a template set
\* or the template cache while another one is about to read or write it.
C21_NoDataRace == \A t \in Threads : Racing(t) = {}

\* the cache and the calls agree: every file was compiled once at most, the
\* cache holds the files compiled, and a RenderTemplate call that has its
\* template has the one the cache holds for its path
CacheConsistent(cache, loads, gs) ==
  /\ \A p \in DOMAIN loads : loads[p] <= 1
  /\ DOMAIN cache = DOMAIN loads
  /\ \A p \in DOMAIN cache : cache[p].file = p
  /\ \A t \in Threads :
       (gs[t].op = "RenderTemplate" /\ gs[t].tmpl # NoTemplate) =>
         (gs[t].name \in DOMAIN cache /\ gs[t].tmpl = cache[gs[t].name])

\* C22: a template file is loaded and compiled at most once, however many
\* RenderTemplate calls ask for it, one after the other or at the same time;
\* every call gets the compiled template the cache holds, and the cache
\* never holds another compiled template for a path than the first.
C22_CompiledOnce ==
  [][/\ CacheConsistent(templates', hist'.loads, goroutines')
     /\ \A p \in DOMAIN templates :
          p \in DOMAIN templates' /\ templates'[p] = templates[p]]_vars

\* a goroutine that found simple.tpl missing at its first look waits for the
\* write lock, and another one has compiled the file and rendered it meanwhile
C22_Witness ==
  \E t, u \in Threads :
    /\ t # u
    /\ goroutines[t].pc = "rt_lock"
    /\ goroutines[t].name \in DOMAIN templates
    /\ goroutines[u].op = "RenderTemplate"
    /\ goroutines[u].pc = "returned"
    /\ goroutines[u].tmpl = templates[goroutines[t].name]
    /\ goroutines[u].out # <<>>
    /\ hist.loads[goroutines[t].name] = 1

(***************************************************************************)
(* Properties of the Engine used by one goroutine                          *)
(***************************************************************************)
\* the render calls that have returned a string
Rendered ==
  {t \in Threads : /\ goroutines[t].op \in {"RenderTemplate", "RenderString"}
                   /\ goroutines[t].pc = "returned"
                   /\ goroutines[t].err = NoError}

\* C23: a render sees every key of the data of every GlobalContext call that
\* returned without error before the render was called: the key is in the
\* context the template is executed on and its value is in the output, for a
\* file template cached before the GlobalContext call, for one loaded after
\* it, for a string template, and whatever Load() calls were made.
C23_GlobalsVisible ==
  \A t \in Rendered :
    /\ goroutines[t].promised \subseteq goroutines[t].view
    /\ \A k \in goroutines[t].promised :
         \E n \in 1..Len(goroutines[t].out) : goroutines[t].out[n] = VarMarker(k)

\* a RegisterFilter call that has returned did what the registry called for
\* when it was made: it put fn under a free name, or refused a taken one
FilterOutcomeOK(g, registry) ==
  LET name == g.name[1]
  IN /\ name \in DOMAIN registry
     /\ IF g.prior = NoFilter
        THEN g.err = NoError /\ registry[name] = g.fn
        ELSE /\ g.err = Errorf("filter already exists", <<name>>, NoErr)
             /\ registry[name] = g.prior

\* C24: RegisterFilter(name, fn) returns nil and registers fn when nothing is
\* registered under name; every later call with that name returns the error
\* "filter <name> already exists", and the filter registered first stays.
C24_DuplicateFilter ==
  [][/\ \A t \in Threads :
          (goroutines'[t].op = "RegisterFilter" /\ goroutines'[t].pc = "returned") =>
            FilterOutcomeOK(goroutines'[t], filters')
     /\ \A n \in DOMAIN filters : n \in DOMAIN filters' /\ filters'[n] = filters[n]]_vars

\* a second RegisterFilter("test", ...) has returned the error, and the
\* filter of the first call is the one registered
C24_Witness ==
  \E t \in Threads :
    /\ goroutines[t].op = "RegisterFilter"
    /\ goroutines[t].pc = "returned"
    /\ goroutines[t].name = <<"test">>
    /\ goroutines[t].prior > 0
    /\ goroutines[t].fn # goroutines[t].prior
    /\ goroutines[t].err.msg = "filter already exists"
    /\ filters["test"] = goroutines[t].prior

(***************************************************************************)
(* Properties of Engine.Render                                             *)
(***************************************************************************)
\* the text has "{{" or "{%" somewhere
HasTag(text) ==
  \E i \in 1..(Len(text) - 1) : text[i] = "{" /\ (text[i + 1] = "{" \/ text[i + 1] = "%")

\* C25: Render(name, data) returns what RenderString returns when name has
\* "{{" or "{%" in it, and what RenderTemplate returns for name as a file
\* name otherwise, the empty name included: the same string and error, the
\* same writes, the same template cache.
C25_RenderDispatch ==
  [][(render'.req.op = "Render" /\ render' # render) =>
       LET req == render'.req
           r == IF HasTag(TextOf(req.name))
                THEN RenderString(req.name, req.data, render'.writers, templates)
                ELSE RenderTemplate(req.name, req.data, render'.writers, templates)
       IN /\ render'.out = r.out
          /\ render'.err = r.err
          /\ render'.written = r.written
          /\ templates' = r.cache]_vars

\* Render was given "{%" and has returned the parse error of RenderString,
\* not the load error of RenderTemplate
C25_Witness ==
  /\ render.req.op = "Render"
  /\ render.req.name = <<"{", "%">>
  /\ render.err.msg = "failed to parse template string"
  /\ render.out = <<>>

\* Render was given a file name with a brace in it and has rendered nothing:
\* there is no such file
RenderedAsFile ==
  /\ render.req.op = "Render"
  /\ render.req.name = <<"{", "simple">>
  /\ render.err.msg = "failed to load template"

\* C26: when a render succeeds, every writer it was given has received the
\* string the render returns, once, and the writes were made in the order of
\* the arguments.
C26_WritersReceiveOutput ==
  (render.req.op = "Render" /\ render.state = "Completed") =>
    /\ render.err = NoError
    /\ Len(render.written) = Len(render.writers)
    /\ \A i \in 1..Len(render.writers) :
         render.written[i] = [w |-> i, str |-> render.out]

\* a render of simple.tpl with two writers: both hold the returned string
C26_Witness ==
  /\ render.req.op = "Render"
  /\ render.state = "Completed"
  /\ render.req.name = <<"simple">>
  /\ render.writers = <<"ok", "ok">>
  /\ render.out = <<0, VarMarker("name")>>
  /\ render.written = <<[w |-> 1, str |-> render.out], [w |-> 2, str |-> render.out]>>

\* the identities of a list of hooks
IdsOf(hooks) == [k \in 1..Len(hooks) |-> hooks[k].id]

\* the hooks of the options that seed the list `with`, in option order
RECURSIVE SeededBy(_, _, _)
SeededBy(opts, with, i) ==
  IF i > Len(opts) THEN <<>>
  ELSE (IF opts[i].with = with THEN opts[i].hooks ELSE <<>>) \o SeededBy(opts, with, i + 1)

\* hook values are made in the order they are given to the chains, so a list
\* that holds them in the order they were given holds them by rising identity
InOrderGiven(hooks) ==
  \A j, k \in 1..Len(hooks) : j < k => hooks[j].id < hooks[k].id

\* C27: AddPreHook and AddPostHook return the chain they were called on and
\* put the hook at the end of its list, leaving the other list and the other
\* chains as they were; a new chain holds the hooks of its options in option
\* order, so every list holds the option hooks first and then the added
\* hooks in call order.
C27_FluentAppend ==
  /\ last.op = "NewHookChain" =>
        /\ last.ret = Len(chains)
        /\ chains[last.ret].preHooks = SeededBy(last.opts, "pre", 1)
        /\ chains[last.ret].postHooks = SeededBy(last.opts, "post", 1)
  /\ last.op \in {"AddPreHook", "AddPostHook"} =>
        /\ last.ret = last.self
        /\ Len(chains) = Len(last.heap0)
        /\ \A c \in 1..Len(chains) : c # last.self => chains[c] = last.heap0[c]
        /\ chains[last.self].preHooks =
             (IF last.op = "AddPreHook"
              THEN Append(last.heap0[last.self].preHooks, last.hook)
              ELSE last.heap0[last.self].preHooks)
        /\ chains[last.self].postHooks =
             (IF last.op = "AddPostHook"
              THEN Append(last.heap0[last.self].postHooks, last.hook)
              ELSE last.heap0[last.self].postHooks)
  /\ \A c \in 1..Len(chains) :
        InOrderGiven(chains[c].preHooks) /\ InOrderGiven(chains[c].postHooks)

\* a chain seeded with a pre-hook and a post-hook, then given a pre-hook and
\* a post-hook through the fluent methods
C27_Witness ==
  /\ last.op = "AddPostHook"
  /\ last.ret = 1
  /\ IdsOf(chains[1].preHooks) = <<1, 3>>
  /\ IdsOf(chains[1].postHooks) = <<2, 4>>

\* C28: a hook registered without a priority argument is returned after
\* every hook of negative priority, before every hook of positive priority,
\* and in registration order with the hooks registered at an explicit 0.
C28_DefaultPriorityZero ==
  \A t \in Threads :
    ret[t].kind # "none" =>
      \A i, j \in 1..Len(ret[t].out) :
        \A a \in RegIndex(ret[t].kind, ret[t].out[i]),
           b \in RegIndex(ret[t].kind, ret[t].out[j]) :
          (regLog[a].priority = <<>> /\ regLog[b].priority # <<>>) =>
            LET q == regLog[b].priority[1]
            IN /\ q < 0 => j < i
               /\ q > 0 => i < j
               /\ q = 0 => (a < b <=> i < j)

\* a pre-hook registered without priority, then one at -1, then one at an
\* explicit 0: the second is returned first, the third last
C28_Witness ==
  \E t \in Threads :
    /\ ret[t].kind = "pre"
    /\ Len(regLog) = 3
    /\ \A i \in 1..3 : regLog[i].kind = "pre"
    /\ regLog[1].priority = <<>>
    /\ regLog[2].priority = <<0 - 1>>
    /\ regLog[3].priority = <<0>>
    /\ ret[t].out = <<regLog[2].id, regLog[1].id, regLog[3].id>>

\* the string the post-hooks invoked before event k of a trace have made of
\* the engine output raw: each of them put its marker in front
RECURSIVE OutputBefore(_, _, _)
OutputBefore(tr, k, raw) ==
  IF k <= 1 THEN raw
  ELSE IF tr[k - 1].ev = "post"
       THEN <<tr[k - 1].hook.id>> \o OutputBefore(tr, k - 1, raw)
       ELSE OutputBefore(tr, k - 1, raw)

\* C29: a pre-hook is invoked on a context with IsPreHook = true and
\* Output = "", the first pre-hook of a render on an empty Metadata map (a
\* map that is there: the hooks write in it); a post-hook is invoked on a
\* context with IsPreHook = false whose Output is the engine output as the
\* post-hooks invoked before it have transformed it.
C29_StageFields ==
  \A k \in 1..Len(render.trace) :
    LET e == render.trace[k]
    IN /\ e.ev = "pre" =>
            /\ e.at.IsPreHook
            /\ e.at.Output = <<>>
            /\ (k = 1 => e.at.Metadata = {})
       /\ e.ev = "post" =>
            /\ ~e.at.IsPreHook
            /\ e.at.Output = OutputBefore(render.trace, k, render.raw)

\* a render on a renderer with an AddMetadataHook and two post-hooks: its
\* pre-hook started from empty metadata, its second post-hook
\* was given the engine output with the marker of the first
C29_Witness ==
  /\ render.state = "Completed"
  /\ Len(render.trace) = 4
  /\ render.trace[1].ev = "pre"
  /\ render.trace[1].hook.kind = "metadata"
  /\ render.trace[1].at.Metadata = {}
  /\ render.ctx.Metadata = MetadataKeys
  /\ render.raw # <<>>
  /\ render.trace[4].ev = "post"
  /\ render.trace[4].at.Output = <<render.trace[3].hook.id>> \o render.raw
  /\ ~render.trace[4].at.IsPreHook

\* ctx.Data and ctx.Metadata as the pre-hook of call e leaves them: a
\* SetDefaultsHook makes Data a map that holds the default key, an
\* AddMetadataHook writes its keys in Metadata
LeftBy(chain, e) ==
  LET kind == chain.preHooks[e.id].kind
  IN [Data |-> IF kind = "defaults"
               THEN [kind |-> "map", keys |-> e.at.Data.keys \cup {DefaultKey}]
               ELSE e.at.Data,
      Metadata |-> IF kind = "metadata" THEN e.at.Metadata \cup MetadataKeys
                   ELSE e.at.Metadata]

\* C30: the hooks of a run work on one HookContext: a pre-hook is invoked
\* with Data and Metadata as the pre-hook before it left them, and every
\* post-hook with Data and Metadata as the last pre-hook left them.
C30_SharedContext ==
  last.op = "ExecuteStages" =>
    LET pre == last.calls
        end == IF pre = <<>>
               THEN [Data |-> last.ctx0.Data, Metadata |-> last.ctx0.Metadata]
               ELSE LeftBy(last.hooks, pre[Len(pre)])
    IN /\ \A k \in 1..Len(pre) :
            /\ pre[k].id = k
            /\ k = 1 => pre[k].at = last.ctx0
            /\ k > 1 => /\ pre[k].at.Data = LeftBy(last.hooks, pre[k - 1]).Data
                        /\ pre[k].at.Metadata = LeftBy(last.hooks, pre[k - 1]).Metadata
       /\ \A k \in 1..Len(last.post) :
            /\ last.post[k].at.Data = end.Data
            /\ last.post[k].at.Metadata = end.Metadata

\* a SetDefaultsHook and an AddMetadataHook run on nil data: the second sees
\* the map of the first, and the second post-hook sees the metadata
C30_Witness ==
  /\ last.op = "ExecuteStages"
  /\ last.ctx0.Data = NilData
  /\ Len(last.calls) = 2
  /\ last.hooks.preHooks[1].kind = "defaults"
  /\ last.hooks.preHooks[2].kind = "metadata"
  /\ last.calls[2].at.Data = MapData({DefaultKey})
  /\ last.calls[2].at.Metadata = {}
  /\ Len(last.post) = 2
  /\ last.post[2].at.Metadata = MetadataKeys
  /\ last.post[2].at.Data = MapData({DefaultKey})

\* thread t is given the sequence of PreHooks() / PostHooks() in this step
Collects(t) == ret[t].kind = "none" /\ ret'[t].kind # "none"

\* the sequences the threads hold: each holds every hook of its kind whose
\* registration has returned, and two threads that called the same method
\* with no registration between the calls hold equal sequences
ReadsAgree ==
  \A t \in Threads :
    ret[t].kind # "none" =>
      /\ {regLog[i].id : i \in Registered(ret[t].kind)} \subseteq Range(ret[t].out)
      /\ \A u \in Threads : ret[u].kind = ret[t].kind => ret[u].out = ret[t].out

\* C31: PreHooks() and PostHooks() change no bucket; the sequence a call
\* returns holds every hook registered before it, the last one included, and
\* calls with no registration between them return equal sequences.
C31_ReadOnlyReads ==
  [][/\ (\E t \in Threads : Collects(t)) => (preHooks' = preHooks /\ postHooks' = postHooks)
     /\ ReadsAgree']_vars

\* two threads have called PreHooks() after two registrations in one bucket
\* and hold the same two hooks
C31_Witness ==
  /\ \A t \in Threads : ret[t].kind = "pre" /\ Len(ret[t].out) = 2
  /\ Len(regLog) = 2
  /\ regLog[1].priority = regLog[2].priority
  /\ ret[1].out = <<regLog[1].id, regLog[2].id>>
  /\ DOMAIN preHooks = {PriorityOf(regLog[1].priority)}

\* every bucket of before is a bucket of after and its hooks are the first
\* hooks of that bucket, in the same order; no bucket of after is empty
Grows(before, after) ==
  /\ \A p \in DOMAIN before :
       /\ p \in DOMAIN after
       /\ Len(before[p]) <= Len(after[p])
       /\ \A i \in 1..Len(before[p]) : after[p][i] = before[p][i]
  /\ \A p \in DOMAIN after : after[p] # <<>>

\* the sequence a PreHooks() (PostHooks()) call returns is as long as the
\* number of AddPreHook (AddPostHook) calls that have returned
Counted ==
  \A t \in Threads :
    ret[t].kind # "none" => Len(ret[t].out) = Cardinality(Registered(ret[t].kind))

\* C32: no step removes a bucket, empties one, or removes or reorders the
\* hooks a bucket holds, and the length of PreHooks() (PostHooks()) is the
\* number of completed AddPreHook (AddPostHook) calls.
C32_Monotonic ==
  [][Grows(preHooks, preHooks') /\ Grows(postHooks, postHooks') /\ Counted']_vars

\* three pre-hooks registered, two of them in the bucket of priority 0, and
\* PreHooks() returns three hooks
C32_Witness ==
  /\ ret[MainThread].kind = "pre"
  /\ Len(ret[MainThread].out) = 3
  /\ Cardinality(Registered("pre")) = 3
  /\ DOMAIN preHooks = {0, 1}
  /\ Len(preHooks[0]) = 2
  /\ preHooks[0][1] < preHooks[0][2]
  /\ postHooks = EmptyMap

\* the buckets other than that of priority p are the same before and after
OnlyBucket(p, before, after) ==
  /\ DOMAIN after \subseteq (DOMAIN before) \cup {p}
  /\ \A q \in DOMAIN before : q # p => (q \in DOMAIN after /\ after[q] = before[q])

\* the priority of the call thread t is in
CallPrio(t) == IF args[t].priority = <<>> THEN 0 ELSE args[t].priority[1]

\* C33: no step of AddPreHook(h, p) changes a pre-hook bucket other than
\* that of p or any post-hook bucket, so PostHooks() returns the same before
\* and after; no step of AddPostHook(h, p) changes a post-hook bucket other
\* than that of p or any pre-hook bucket.
C33_RegistrationFrame ==
  [][\A t \in Threads :
       /\ pc[t] \in {"pre_lookup", "pre_store", "pre_unlock"} =>
            /\ OnlyBucket(CallPrio(t), preHooks, preHooks')
            /\ postHooks' = postHooks
            /\ \A keys \in KeyOrders(postHooks) :
                 CollectHooks(postHooks', keys) = CollectHooks(postHooks, keys)
       /\ pc[t] \in {"post_lookup", "post_store", "post_unlock"} =>
            /\ OnlyBucket(CallPrio(t), postHooks, postHooks')
            /\ preHooks' = preHooks
            /\ \A keys \in KeyOrders(preHooks) :
                 CollectHooks(preHooks', keys) = CollectHooks(preHooks, keys)]_vars

\* AddPreHook(h, 1) has stored h next to the pre-hook bucket of priority 0
\* and a post-hook bucket
C33_Witness ==
  /\ pc[MainThread] = "pre_unlock"
  /\ args[MainThread].priority = <<1>>
  /\ DOMAIN preHooks = {0, 1}
  /\ preHooks[1] = <<args[MainThread].hook>>
  /\ postHooks # EmptyMap

ReturnedBy(kind, e) ==
  IF kind = "blank" THEN <<>>
  ELSE IF kind = "same" THEN e.seen
  ELSE <<e.id>> \o e.seen

\* the output after call i of a run: what the next hook is invoked with, or,
\* after the last hook, what the call returns and leaves in ctx.Output
OutputAfter(i) ==
  IF i < Len(last.calls) THEN {last.calls[i + 1].seen}
  ELSE {last.out, last.ctx.Output}

\* C35: after a post-hook that succeeds the output is the string it returned:
\* the empty string when it returned that, the returned string and not the
\* one the hook assigned to ctx.Output, and the output as it was when the
\* hook returned ctx.Output.
C35_ReturnIsAuthoritative ==
  last.op = "ExecuteReturns" =>
    \A i \in 1..Len(last.calls) :
      last.hooks[i].kind # "fail" =>
        OutputAfter(i) = {ReturnedBy(last.hooks[i].kind, last.calls[i])}

\* on "original": a hook that assigns ctx.Output and returns another string,
\* a hook that returns ctx.Output, a hook that returns ""
C35_Witness ==
  /\ last.op = "ExecuteReturns"
  /\ last.ctx0.Output = <<0>>
  /\ Len(last.calls) = 3
  /\ last.hooks[1].kind = "assign"
  /\ last.hooks[2].kind = "same"
  /\ last.hooks[3].kind = "blank"
  /\ last.calls[2].seen = <<1, 0>>
  /\ last.calls[3].seen = <<1, 0>>
  /\ last.out = <<>>
  /\ last.ctx.Output = <<>>
  /\ last.err = NoErr

\* the hooks of a list up to its first failing hook, that one included
RECURSIVE UpToFailure(_)
UpToFailure(hooks) ==
  IF hooks = <<>> THEN <<>>
  ELSE IF Head(hooks).kind = "fail" THEN <<Head(hooks)>>
  ELSE <<Head(hooks)>> \o UpToFailure(Tail(hooks))

\* the closure just invoked has invoked the hooks the chain holds
InvokedLive ==
  /\ last.op = "InvokePreClosure" =>
        IdsOf(last.calls) = IdsOf(UpToFailure(chains[1].preHooks))
  /\ last.op = "InvokePostClosure" =>
        IdsOf(last.calls) = IdsOf(UpToFailure(chains[1].postHooks))

\* C36: a closure of AsPreHook() / AsPostHook() runs the chain as it is when
\* the closure is invoked: the hooks it invokes are those the chain holds
\* now, in order up to the first that fails, the hooks appended after the
\* closure was made and registered among them.
C36_LiveClosure == [][last' # last => InvokedLive']_vars

\* the closure of the empty chain was registered first, two pre-hooks were
\* appended afterwards, and the closure has invoked both
C36_Witness ==
  /\ last.op = "InvokePreClosure"
  /\ last.hooks[1].id = 1
  /\ IdsOf(chains[1].preHooks) = <<2, 3>>
  /\ IdsOf(last.calls) = <<2, 3>>

\* the chains whose closures the list of chain c holds
Inner(list, c) ==
  {h.env.ptr : h \in {x \in Range(chains[c][list]) : x.kind = "closure"}}

\* the chains reached from chain c through at most n closures
RECURSIVE Within(_, _, _)
Within(list, c, n) ==
  IF n = 0 THEN {c}
  ELSE {c} \cup UNION {Within(list, d, n - 1) : d \in Inner(list, c)}

\* no chain reached from c holds, directly or through other chains, its own
\* closure
Acyclic(list, c) ==
  \A d \in Within(list, c, Len(chains)) :
    \A e \in Inner(list, d) : d \notin Within(list, e, Len(chains))

\* the leaf hooks of a list in depth-first append order, a closure standing
\* for the leaf hooks of its chain (nesting no deeper than n)
RECURSIVE Leaves(_, _, _)
Leaves(list, hooks, n) ==
  IF hooks = <<>> \/ n = 0 THEN <<>>
  ELSE (IF Head(hooks).kind = "closure"
        THEN Leaves(list, chains[Head(hooks).env.ptr][list], n - 1)
        ELSE <<Head(hooks).id>>) \o Leaves(list, Tail(hooks), n)

\* no hook of the chains fails
NoneFails == \A c \in 1..Len(chains) :
  \A h \in Range(chains[c].preHooks) \cup Range(chains[c].postHooks) : h.kind # "fail"

\* the execution under way does not run out of stack, and once it has
\* returned it has invoked the leaf hooks in depth-first append order, each
\* once for every place it has in the nesting
RunsDepthFirst ==
  /\ last.state # "overflow"
  /\ (last.state = "done" /\ NoneFails) =>
        last.calls = Leaves(last.list, chains[last.top][last.list], Len(chains) + 1)

C38_FailedLoadNotCached ==
  render.state = "LoadReturned" =>
    /\ (render.path \notin DOMAIN render.before /\ ~render.onDisk) =>
          /\ render.err = Errorf("failed to load template", render.path, NoErr)
          /\ render.path = Append(render.req.name, ".tpl")
          /\ render.out = <<>>
          /\ templates = render.before
    /\ (render.path \in render.refused /\ render.onDisk) =>
          /\ render.err = NoError
          /\ render.out # <<>>
          /\ render.path \in DOMAIN templates
          /\ templates[render.path] = render.path

\* a path whose load failed has been rendered after its file was written
C38_Witness ==
  /\ render.state = "LoadReturned"
  /\ render.path = <<"late", ".tpl">>
  /\ render.path \in render.refused
  /\ render.path \notin DOMAIN render.before
  /\ render.onDisk
  /\ render.err = NoError
  /\ render.out # <<>>

\* the threads whose next step reads or writes the list thread t is about
\* to write
RacingOnChain(t) ==
  {u \in Threads \ {t} : WritesAt(pc[t]) /\ ListAt(pc[u]) = ListAt(pc[t])}

\* C39: with AddPreHook / AddPostHook / ExecutePreHooks / ExecutePostHooks
\* called on one chain from concurrent threads, no thread is about to write
\* a hook list another thread is about to read or write, and once the calls
\* have returned the chain holds one hook for every append made.
C39_ChainConcurrentSafe ==
  /\ \A t \in Threads : RacingOnChain(t) = {}
  /\ (\A t \in Threads : pc[t] = "idle") =>
        Len(chainPre) + Len(chainPost) = Len(regLog)

\* the string the render last called returns when it is given no writers
RenderedStr == Render(render.req.name, render.req.data, <<>>, templates).out

\* the place of the first writer of the list whose Write fails (one past the
\* end when none does)
RECURSIVE FirstFailing(_, _)
FirstFailing(writers, i) ==
  IF i > Len(writers) \/ writers[i] = "fail" THEN i ELSE FirstFailing(writers, i + 1)

====
